---- MODULE Spec2Model ----
(***************************************************************************)
(* Gas-repricing simulator (erigone overlay): structured-log tracer, dual  *)
(* execution driver, gas schedule lookups, precompile gas overrides and    *)
(* the custom SSTORE gas function, modelled as state machines.             *)
(*                                                                         *)
(* TLC's integers are 32-bit, so the machine word is scaled: a Go uint64   *)
(* is a WordBits-bit unsigned word, and every Go addition, subtraction and *)
(* multiplication on uint64 is taken modulo 2^WordBits (U64).  MaxU64      *)
(* stands for ^uint64(0).                                                  *)
(***************************************************************************)
EXTENDS Integers, Sequences, FiniteSets, TLC

VARIABLES
    \* ---- StructLogTracer (tracer.go) ----
    logs,            \* t.logs: sequence of StructLog records
    pendingIdx,      \* t.pendingIdx: pendingIdx[d+1] is the entry for depth d, -1 = none
    pendingCreates,  \* t.pendingCreates: stack of [logIndex, depth]
    env,             \* t.env != nil (OnTxStart has fired)
    calls,           \* history: the arguments of every OnOpcode call so far
    \* ---- dual execution driver (SimulateBlockGas) ----
    req,             \* the request: [gasSchedule, maxGasLimit]
    block,           \* block.Transactions(): sequence of transactions
    drvState,        \* "start", "running", "done" (result returned), "error" (error returned)
    txIndex,         \* loop index of SimulateBlockGas
    transactions,    \* result.Transactions
    totals,          \* result.Original.GasUsed, result.Simulated.GasUsed, WouldExceedLimit
    opcodeBreakdown, \* result.OpcodeBreakdown
    nextView,        \* number of read-only views opened so far by s.db.BeginTemporalRo
    nextTracer,      \* number of SimulationTracer instances constructed so far
    runs,            \* history: one record per executeSingleTransaction call
    dualResults,     \* history: the dualExecutionResult of every processed transaction
    infraFail,       \* history: the infrastructure failure that ended the request, or "none"
    txGasResult,     \* <<result>> once SimulateTransactionGas has returned one, else <<>>
    \* ---- gas schedule lookups and precompile gas (gas_schedule.go, precompile_gas.go) ----
    vmSchedule,      \* the *GasSchedule of the execution
    gasCall,         \* the last lookup or precompile gas call, with its result
    \* ---- custom SSTORE gas function (datasource.go) ----
    sstoreP,         \* the sstoreGasParams built by applyOverrides
    slotOriginal,    \* committed value of the slot (GetCommittedState)
    slotCurrent,     \* current value of the slot (GetState)
    slotWarm,        \* the slot is in the access list
    refundCounter,   \* the refund counter of the state
    refundPanic,     \* SubRefund was asked to take more than the counter holds
    sstoreCount,     \* number of SSTOREs the transaction has executed
    lastSstore,      \* the last call of the SSTORE gas function, with its result
    \* ---- jump table construction (custom_gas.go, datasource.go, jump_table.go) ----
    jtRules,         \* the chain rules (fork) of the block
    jtSchedule,      \* the *CustomGasSchedule handed to the builder
    jtEdits,         \* number of keys the caller has set in the schedule
    jtBuilt,         \* which builder produced jtTable: "base", "datasource", "jump_table"
    jtTable,         \* the resulting *vm.JumpTable
    \* ---- CALL family gas functions (datasource.go) ----
    callP,           \* the callGasParams the functions were made with
    accessList,      \* addresses in the transaction's access list
    calledAddrs,     \* addresses a CALL-family opcode of the transaction has targeted
    callCount,       \* number of CALL-family opcodes the transaction has executed
    lastCall,        \* the last call of a CALL-family gas function, with its result
    \* ---- SimulationTracer (summary tracer) ----
    gasUsed,         \* t.gasUsed: opcode name -> gas
    opcodeCounts,    \* t.opcodeCounts: opcode name -> count
    totalGasUsed,    \* t.totalGasUsed
    callStack,       \* t.callStack: sequence of callFrame
    callErrors,      \* t.callErrors: sequence of CallError
    pendingCallCost, \* t.pendingCallCost
    pendingCallDepth, \* t.pendingCallDepth
    pendingCallType, \* t.pendingCallType
    simPhase,        \* the transaction: "new", "tx", "run", "exited", "ended"
    evmFrames,       \* the frames the EVM is executing, outermost first
    evmNext,         \* what the EVM does next: "op", "call" (enter the child), "exit"
    simHook,         \* the last hook called on the tracer, with its arguments
    hookCount        \* number of hooks called

tracerVars == <<logs, pendingIdx, pendingCreates, env, calls>>

driverVars == <<req, block, drvState, txIndex, transactions, totals, opcodeBreakdown,
                nextView, nextTracer, runs, dualResults, infraFail, txGasResult>>

gasVars == <<vmSchedule, gasCall>>

sstoreVars == <<sstoreP, slotOriginal, slotCurrent, slotWarm, refundCounter, refundPanic,
                sstoreCount, lastSstore>>

tableVars == <<jtRules, jtSchedule, jtEdits, jtBuilt, jtTable>>

callVars == <<callP, accessList, calledAddrs, callCount, lastCall>>

simVars == <<gasUsed, opcodeCounts, totalGasUsed, callStack, callErrors, pendingCallCost,
             pendingCallDepth, pendingCallType, simPhase, evmFrames, evmNext, simHook,
             hookCount>>

vars == <<tracerVars, driverVars, gasVars, sstoreVars, tableVars, callVars, simVars>>

\* ------------------------------------------------------------------------
\* Bounds of the model
\* ------------------------------------------------------------------------
MaxLogs == 3
MaxDepth == 2
MaxTxs == 2
MaxSstores == 3
MaxEdits == 1
MaxCalls == 2
MaxHooks == 7
WordBits == 28

\* ------------------------------------------------------------------------
\* uint64 arithmetic
\* ------------------------------------------------------------------------
U64 == 2^WordBits
MaxU64 == U64 - 1

AddU64(a, b) == (a + b) % U64
SubU64(a, b) == (a - b + U64) % U64
MulU64(a, b) == (a * b) % U64

Min(a, b) == IF a < b THEN a ELSE b
Max(a, b) == IF a > b THEN a ELSE b

\* The uint64 sum of a sequence of words.
RECURSIVE SumSeq(_)
SumSeq(q) == IF q = <<>> THEN 0 ELSE AddU64(q[1], SumSeq(Tail(q)))

\* ------------------------------------------------------------------------
\* StructLogTracer
\* ------------------------------------------------------------------------
NoIdx == -1        \* pendingIdx entry meaning "no pending log"
NoAddr == -1       \* CallToAddress == nil
NoRefund == -1     \* Refund == nil
ErrNone == ""      \* err == nil
ErrOutOfGas == "out of gas"

isCallOpcode(op) == op \in {"CALL", "STATICCALL", "DELEGATECALL", "CALLCODE"}

isCreateOpcode(op) == op \in {"CREATE", "CREATE2"}

\* The pendingIdx slice grown until it holds an entry for depth.
GrowPending(pi, depth) ==
    IF Len(pi) > depth THEN pi
    ELSE pi \o [k \in 1..(depth + 1 - Len(pi)) |-> NoIdx]

\* Mutant of ClearDeeper: the clearing loop runs down to the current depth
\* itself (d >= depth), dropping the entry the update needs.
ClearDeeperInclusive(pi, depth) ==
    LET g == GrowPending(pi, depth)
    IN [k \in 1..Len(g) |-> IF k - 1 >= depth THEN NoIdx ELSE g[k]]

\* The first two loops of updatePendingGasUsed: grow, then clear deeper levels.
ClearDeeper(pi, depth) ==
    LET g == GrowPending(pi, depth)
    IN [k \in 1..Len(g) |-> IF k - 1 > depth THEN NoIdx ELSE g[k]]

\* updatePendingGasUsed: the logs after the pending log at depth got its GasUsed.
UpdatePendingGasUsedLogs(ls, pi, depth, currentGas) ==
    LET cleared == ClearDeeper(pi, depth)
        prevIdx == cleared[depth + 1]
    IN IF prevIdx >= 0 /\ prevIdx < Len(ls)
       THEN [ls EXCEPT ![prevIdx + 1].gasUsed = SubU64(ls[prevIdx + 1].gas, currentGas)]
       ELSE ls

\* setPendingIdx
SetPendingIdx(pi, depth, logIdx) ==
    [GrowPending(pi, depth) EXCEPT ![depth + 1] = logIdx]

\* Mutant of ResolvePendingCreates: only the innermost pending CREATE is
\* looked at.
ResolvePendingCreatesOnce(ls, pcs, currentDepth, stack) ==
    IF Len(pcs) = 0 THEN [logs |-> ls, pending |-> pcs]
    ELSE LET last == pcs[Len(pcs)]
         IN IF currentDepth <= last.depth
            THEN [logs |-> IF Len(stack) > 0
                           THEN [ls EXCEPT ![last.logIndex + 1].callTo = stack[Len(stack)]]
                           ELSE ls,
                  pending |-> SubSeq(pcs, 1, Len(pcs) - 1)]
            ELSE [logs |-> ls, pending |-> pcs]

\* resolvePendingCreates: pops every pending CREATE whose depth is >= currentDepth,
\* writing the top of the current stack into its log entry when the stack is
\* not empty.  Returns [logs, pending].
RECURSIVE ResolvePendingCreates(_, _, _, _)
ResolvePendingCreates(ls, pcs, currentDepth, stack) ==
    IF Len(pcs) = 0 THEN [logs |-> ls, pending |-> pcs]
    ELSE LET last == pcs[Len(pcs)]
         IN IF currentDepth <= last.depth
            THEN ResolvePendingCreates(
                    IF Len(stack) > 0
                    THEN [ls EXCEPT ![last.logIndex + 1].callTo = stack[Len(stack)]]
                    ELSE ls,
                    SubSeq(pcs, 1, Len(pcs) - 1), currentDepth, stack)
            ELSE [logs |-> ls, pending |-> pcs]

\* Mutant of SanitizeGasCost: the reported cost is stored as it comes.
SanitizeGasCostRaw(gas, cost) == cost

\* The sanitised GasCost of a new log entry (tracer.go:204-206).
SanitizeGasCost(gas, cost) == IF cost > gas THEN gas ELSE cost

\* The initial GasUsed of a new log entry (tracer.go:197).
InitialGasUsed(gas, cost, err) == cost

\* The log entry OnOpcode builds.
\* Mutant of NewLog: a refund counter of zero is left out of the log.
NewLogOmitZeroRefund(op, gas, cost, stack, depth, err, refund) ==
    [ op      |-> op,
      gas     |-> gas,
      gasCost |-> SanitizeGasCost(gas, cost),
      gasUsed |-> InitialGasUsed(gas, cost, err),
      depth   |-> depth,
      callTo  |-> IF isCallOpcode(op) /\ Len(stack) > 1
                  THEN stack[Len(stack) - 1] ELSE NoAddr,
      refund  |-> IF env /\ refund # 0 THEN refund ELSE NoRefund,
      error   |-> err ]

\* The log entry OnOpcode builds (tracer.go:192-245).
NewLog(op, gas, cost, stack, depth, err, refund) ==
    [ op      |-> op,
      gas     |-> gas,
      gasCost |-> SanitizeGasCost(gas, cost),
      gasUsed |-> InitialGasUsed(gas, cost, err),
      depth   |-> depth,
      callTo  |-> IF isCallOpcode(op) /\ Len(stack) > 1
                  THEN stack[Len(stack) - 1] ELSE NoAddr,
      refund  |-> IF env THEN refund ELSE NoRefund,
      error   |-> err ]

\* OnTxStart: stores the VM context.
OnTxStart ==
    /\ ~env
    /\ env' = TRUE
    /\ UNCHANGED <<logs, pendingIdx, pendingCreates, calls>>

\* OnOpcode(pc, opcode, gas, cost, scope, rData, depth, err); refund is what
\* IntraBlockState.GetRefund() returns during the call.
OnOpcode(op, gas, cost, stack, depth, err, refund) ==
    /\ Len(logs) < MaxLogs
    /\ LET ls1      == UpdatePendingGasUsedLogs(logs, pendingIdx, depth, gas)
           pi1      == ClearDeeper(pendingIdx, depth)
           resolved == ResolvePendingCreates(ls1, pendingCreates, depth, stack)
           logIdx   == Len(logs)
           log      == NewLog(op, gas, cost, stack, depth, err, refund)
       IN /\ logs' = Append(resolved.logs, log)
          /\ pendingIdx' = SetPendingIdx(pi1, depth, logIdx)
          /\ pendingCreates' =
                IF isCreateOpcode(op)
                THEN Append(resolved.pending, [logIndex |-> logIdx, depth |-> depth])
                ELSE resolved.pending
    /\ calls' = Append(calls, [op |-> op, gas |-> gas, cost |-> cost,
                               depth |-> depth, err |-> err,
                               hasEnv |-> env, refund |-> refund, stack |-> stack])
    /\ UNCHANGED env

\* Inputs of the tracer specification.
Depths == 1..MaxDepth
\* <<opcode, stack, gas, cost, err, refund counter of the state>>
OpcodeInputs ==
    { <<"ADD", <<>>, 9, 3, ErrNone, 0>>,
      <<"ADD", <<>>, 4, 3, ErrNone, 4800>>,
      <<"ADD", <<>>, 4, 7, ErrOutOfGas, 4800>>,
      <<"ADD", <<>>, 4, MaxU64, ErrNone, 0>>,
      <<"CALL", <<1, 2>>, 9, 3, ErrNone, 19900>>,
      <<"CALL", <<1, 2>>, 4, 4, ErrOutOfGas, 0>>,
      <<"CALL", <<1>>, 0, 0, ErrNone, 0>>,
      <<"CREATE", <<1, 0>>, 9, 3, ErrNone, 19900>> }

TracerInit ==
    /\ logs = <<>>
    /\ pendingIdx = <<>>
    /\ pendingCreates = <<>>
    /\ env = FALSE
    /\ calls = <<>>

TracerOpcode ==
    \E in \in OpcodeInputs, d \in Depths :
        OnOpcode(in[1], in[3], in[4], in[2], d, in[5], in[6])

\* Log j is the first entry after log i at i's depth, and every entry between
\* them is deeper (no return to a shallower frame in between).
NextAtSameDepth(i, j) ==
    /\ i < j
    /\ logs[i].depth = logs[j].depth
    /\ \A k \in (i + 1)..(j - 1) : logs[k].depth > logs[i].depth

\* Log i is the last entry of its frame so far: it is the last log, or the
\* next log is at a shallower depth (control returned to the parent).
LastOfFrame(i) ==
    \/ i = Len(logs)
    \/ logs[i + 1].depth < logs[i].depth

\* C2: whenever log j is the next entry at log i's depth with only deeper
\* entries between them, logs[i].gas_used = logs[i].gas - logs[j].gas (uint64).
C2_GasUsedIsGasDifference ==
    \A i, j \in 1..Len(logs) :
        NextAtSameDepth(i, j) => logs[i].gasUsed = SubU64(logs[i].gas, logs[j].gas)

\* C2 witness: a pair with deeper entries in between whose gas_used was
\* rewritten to a value different from the reported cost.
C2_Witness ==
    \E i, j \in 1..Len(logs) :
        /\ NextAtSameDepth(i, j)
        /\ j > i + 1
        /\ logs[i].gasUsed # calls[i].cost
        /\ logs[i].gasUsed = logs[i].gas - logs[j].gas

\* C3: every recorded entry has 0 <= gas_cost <= gas; a reported cost above
\* the remaining gas is replaced by the remaining gas, any other is kept.
C3_GasCostSanitised ==
    \A i \in 1..Len(logs) :
        /\ 0 <= logs[i].gasCost
        /\ logs[i].gasCost <= logs[i].gas
        /\ calls[i].cost > calls[i].gas => logs[i].gasCost = calls[i].gas
        /\ calls[i].cost <= calls[i].gas => logs[i].gasCost = calls[i].cost

\* C3 witness: an entry recorded from a corrupted cost of 2^WordBits - 1 and
\* another recorded from a cost within the remaining gas.
C3_Witness ==
    \E i, j \in 1..Len(logs) :
        /\ calls[i].cost = MaxU64 /\ logs[i].gasCost = logs[i].gas
        /\ calls[j].cost < calls[j].gas /\ logs[j].gasCost = calls[j].cost

\* C4 (as claimed): an opcode reported with an out-of-gas error and a cost
\* above the remaining gas, being the last entry of its frame (a single
\* top-level opcode, or the last of a nested frame before the parent
\* resumes), has gas_used = gas.
C4_GasUsedCappedOnOOG ==
    \A i \in 1..Len(logs) :
        (/\ calls[i].err = ErrOutOfGas
         /\ calls[i].cost > calls[i].gas
         /\ LastOfFrame(i))
        => logs[i].gasUsed = logs[i].gas

\* The first opcode after log i whose depth is at most that of log i, 0 if
\* there is none yet.
ResolverOf(i) ==
    LET later == { j \in (i + 1)..Len(logs) : logs[j].depth <= logs[i].depth }
    IN IF later = {} THEN 0 ELSE CHOOSE j \in later : \A k \in later : j <= k

\* C25: every CREATE log at depth d is resolved by the first later opcode
\* whose depth is at most d and by no other: until that opcode it is pending
\* with no call_to_address, whatever runs at depths above d; from that opcode
\* on it is not pending and its call_to_address is the top of that opcode's
\* stack (the created address, zero when the creation failed), the stack
\* holding at least the word the CREATE or the call that has returned pushed;
\* the pending CREATEs are the unresolved ones, outermost first, so that they
\* are popped innermost first.
C25_CreateResolvedByFirstReturn ==
    /\ \A i \in 1..Len(logs) :
          isCreateOpcode(logs[i].op) =>
             LET j == ResolverOf(i)
             IN IF j = 0
                THEN /\ logs[i].callTo = NoAddr
                     /\ \E k \in 1..Len(pendingCreates) :
                           pendingCreates[k] = [logIndex |-> i - 1, depth |-> logs[i].depth]
                ELSE /\ \A k \in 1..Len(pendingCreates) :
                           pendingCreates[k].logIndex # i - 1
                     /\ Len(calls[j].stack) > 0 =>
                           logs[i].callTo = calls[j].stack[Len(calls[j].stack)]
    /\ \A k \in 1..Len(pendingCreates) :
          /\ isCreateOpcode(logs[pendingCreates[k].logIndex + 1].op)
          /\ k > 1 => /\ pendingCreates[k - 1].depth < pendingCreates[k].depth
                      /\ pendingCreates[k - 1].logIndex < pendingCreates[k].logIndex

\* A CREATE at depth 1 and a CREATE in its constructor at depth 2 have both
\* been resolved by one opcode at depth 1 whose stack top is 0: both
\* creations failed.
C25_Witness ==
    /\ Len(logs) = 3
    /\ logs[1].op = "CREATE" /\ logs[1].depth = 1
    /\ logs[2].op = "CREATE" /\ logs[2].depth = 2
    /\ logs[3].depth = 1
    /\ logs[1].callTo = 0
    /\ logs[2].callTo = 0
    /\ pendingCreates = <<[logIndex |-> 2, depth |-> 1]>>

\* C13: a log entry carries a refund iff OnTxStart was called on the tracer
\* before the OnOpcode call that recorded it; the refund it carries is the
\* state's refund counter at that call, zero included.
C13_RefundIffTxStarted ==
    \A i \in 1..Len(logs) :
        /\ (logs[i].refund # NoRefund) <=> calls[i].hasEnv
        /\ calls[i].hasEnv => logs[i].refund = calls[i].refund

\* OnTxStart between two opcodes: the first log has no refund, the later ones
\* have the counter of their own call, a zero and a non-zero one.
C13_Witness ==
    /\ Len(logs) = 3
    /\ ~calls[1].hasEnv /\ logs[1].refund = NoRefund
    /\ calls[2].hasEnv /\ calls[2].refund = 0 /\ logs[2].refund = 0
    /\ calls[3].hasEnv /\ calls[3].refund = 4800 /\ logs[3].refund = 4800

\* ------------------------------------------------------------------------
\* Gas schedules
\* ------------------------------------------------------------------------
\* A *CustomGasSchedule / *vm.GasSchedule: kind "nilptr" is the nil pointer,
\* "nilmap" a schedule whose Overrides map is nil, "map" one with a map ov.
EmptyMap == [k \in {} |-> 0]
NilSchedule == [kind |-> "nilptr", ov |-> EmptyMap]
NilMapSchedule == [kind |-> "nilmap", ov |-> EmptyMap]
MapSchedule(m) == [kind |-> "map", ov |-> m]

\* len(c.Overrides)
LenOverrides(c) == Cardinality(DOMAIN c.ov)

\* Mutant of HasOverrides: the length test is forgotten.
HasOverridesNonNil(c) == c.kind # "nilptr"

\* CustomGasSchedule.HasOverrides
HasOverrides(c) == c.kind # "nilptr" /\ LenOverrides(c) > 0

\* CustomGasSchedule.ToVMGasSchedule
ToVMGasSchedule(c) ==
    IF c.kind = "nilptr" \/ LenOverrides(c) = 0 THEN NilSchedule
    ELSE MapSchedule(c.ov)

\* GasSchedule.GetOr
GetOr(g, key, defaultVal) ==
    IF g.kind # "nilptr" /\ g.kind # "nilmap" /\ key \in DOMAIN g.ov
    THEN g.ov[key] ELSE defaultVal

\* GasSchedule.HasIntrinsicOverrides
IntrinsicKeys ==
    { "TX_BASE", "TX_CREATE_BASE", "TX_DATA_ZERO", "TX_DATA_NONZERO",
      "TX_ACCESS_LIST_ADDR", "TX_ACCESS_LIST_KEY", "TX_INIT_CODE_WORD",
      "TX_FLOOR_PER_TOKEN", "TX_AUTH_COST" }

\* Mutant of HasIntrinsicOverrides: only the base key is looked for.
HasIntrinsicOverridesBaseOnly(g) ==
    IF g.kind = "nilptr" \/ g.kind = "nilmap" THEN FALSE
    ELSE "TX_BASE" \in DOMAIN g.ov

HasIntrinsicOverrides(g) ==
    IF g.kind = "nilptr" \/ g.kind = "nilmap" THEN FALSE
    ELSE \E key \in IntrinsicKeys : key \in DOMAIN g.ov

\* ------------------------------------------------------------------------
\* Dual execution driver
\* ------------------------------------------------------------------------
\* Fork values the driver's transactions meet: params.TxGas (the intrinsic gas
\* of a call without data or access list) and the constant gas of the opcodes
\* of the base jump table.
TxGas == 21000
AddConstantGas == 3
BlockGasLimit == 100000

OpcodeNames == {"ADD", "REVERT"}

\* opcodeFromString: ok iff the name is an opcode mnemonic.
opcodeFromString(name) == name \in OpcodeNames

\* vm.GetBaseJumpTable(rules): constant gas per opcode.
BaseJumpTable == [o \in OpcodeNames |-> IF o = "ADD" THEN AddConstantGas ELSE 0]

\* BuildCustomJumpTable: the base table with the constant gas of every opcode
\* named by a schedule key overwritten.
BuildCustomJumpTable(schedule) ==
    IF schedule.kind = "nilptr" \/ ~HasOverrides(schedule) THEN BaseJumpTable
    ELSE [o \in OpcodeNames |->
            IF o \in DOMAIN schedule.ov /\ opcodeFromString(o)
            THEN schedule.ov[o] ELSE BaseJumpTable[o]]

\* The transactions of the modelled blocks: a is out of gas as soon as an
\* opcode costs more, b cannot pay its intrinsic gas, c reverts.
TxKinds ==
    { [hash |-> "a", gas |-> 21009, nops |-> 3, reverts |-> FALSE],
      [hash |-> "b", gas |-> 20000, nops |-> 0, reverts |-> FALSE],
      [hash |-> "c", gas |-> 50000, nops |-> 2, reverts |-> TRUE] }

Blocks == UNION { [1..n -> TxKinds] : n \in 0..MaxTxs }

DriverSchedules ==
    { NilSchedule, NilMapSchedule, MapSchedule(EmptyMap),
      MapSchedule([k \in {"ADD"} |-> 5]),
      MapSchedule([k \in {"ADD"} |-> 1]),
      MapSchedule([k \in {"TX_BASE"} |-> 20000]),
      MapSchedule([k \in {"TX_DATA_ZERO"} |-> 1]),
      MapSchedule([k \in {"ADD", "TX_AUTH_COST"} |-> 5]),
      MapSchedule([k \in {"TX_INTRINSIC"} |-> 1]) }

\* Mutant of ExecConfig: the bailout is enabled but the message keeps the
\* transaction's own gas limit and its gas check.
ExecConfigKeepsTxGas(txn, gasSchedule, maxGasLimit) ==
    LET over == gasSchedule.kind # "nilptr" /\ HasOverrides(gasSchedule)
    IN [ customJT    |-> [set |-> over,
                          table |-> IF over THEN BuildCustomJumpTable(gasSchedule)
                                    ELSE BaseJumpTable],
         gasSchedule |-> IF over THEN ToVMGasSchedule(gasSchedule) ELSE NilSchedule,
         msgGas      |-> txn.gas,
         checkGas    |-> TRUE,
         gasBailout  |-> maxGasLimit,
         gasPool     |-> txn.gas ]

\* What executeSingleTransaction hands to the interpreter (part_002:987-1028):
\* vmConfig.CustomJumpTable, evm.GasSchedule, the message gas and check-gas
\* flag, the bailout flag and the gas pool.
ExecConfig(txn, gasSchedule, maxGasLimit) ==
    LET over == gasSchedule.kind # "nilptr" /\ HasOverrides(gasSchedule)
        msgGas == IF maxGasLimit THEN BlockGasLimit ELSE txn.gas
    IN [ customJT    |-> [set |-> over,
                          table |-> IF over THEN BuildCustomJumpTable(gasSchedule)
                                    ELSE BaseJumpTable],
         gasSchedule |-> IF over THEN ToVMGasSchedule(gasSchedule) ELSE NilSchedule,
         msgGas      |-> msgGas,
         checkGas    |-> ~maxGasLimit,
         gasBailout  |-> maxGasLimit,
         gasPool     |-> msgGas ]

\* protocol.ApplyMessage with the interpreter behind it, as a deterministic
\* function of the transaction and the configuration: the intrinsic gas is
\* charged first (a message that cannot pay it fails before the interpreter
\* starts), then the transaction's opcodes run at the table's constant gas
\* until they are done or the gas is gone.
ApplyMessage(txn, cfg) ==
    LET intrinsic == GetOr(cfg.gasSchedule, "TX_BASE", TxGas)
        price     == cfg.customJT.table["ADD"]
        avail     == cfg.msgGas - intrinsic
        afford    == IF price = 0 THEN txn.nops ELSE Min(txn.nops, avail \div price)
    IN IF cfg.msgGas < intrinsic
       THEN [ applyErr |-> "intrinsic gas too low", execNil |-> TRUE,
              receiptGasUsed |-> 0, vmErr |-> ErrNone, opcodeCount |-> 0 ]
       ELSE IF afford < txn.nops
       THEN [ applyErr |-> ErrNone, execNil |-> FALSE,
              receiptGasUsed |-> cfg.msgGas, vmErr |-> ErrOutOfGas,
              opcodeCount |-> afford + 1 ]
       ELSE [ applyErr |-> ErrNone, execNil |-> FALSE,
              receiptGasUsed |-> intrinsic + txn.nops * price,
              vmErr |-> IF txn.reverts THEN "execution reverted" ELSE ErrNone,
              opcodeCount |-> txn.nops ]

\* Mutant of StatusOf: only the in-EVM error is looked at.
StatusOfVmErrOnly(applyErr, execNil, vmErr) ==
    IF ~execNil /\ vmErr # ErrNone THEN "failed" ELSE "success"

\* status of executeSingleTransaction (part_002:1031-1034)
StatusOf(applyErr, execNil, vmErr) ==
    IF applyErr # ErrNone \/ (~execNil /\ vmErr # ErrNone) THEN "failed" ELSE "success"

\* The intrinsic gas executeSingleTransaction reports for a call without data
\* (part_002:1044-1065).
UsesCustomIntrinsicGas(gasSchedule) ==
    /\ gasSchedule.kind # "nilptr"
    /\ ToVMGasSchedule(gasSchedule).kind # "nilptr"
    /\ HasIntrinsicOverrides(ToVMGasSchedule(gasSchedule))

ReportedIntrinsicGas(gasSchedule) ==
    IF UsesCustomIntrinsicGas(gasSchedule)
    THEN GetOr(ToVMGasSchedule(gasSchedule), "TX_BASE", TxGas)
    ELSE TxGas

\* Mutant of executeSingleTransaction: the schedule is taken from the request
\* instead of the argument.
executeSingleTransactionOfRequest(txn, gasSchedule, maxGasLimit) ==
    LET cfg == ExecConfig(txn, req.gasSchedule, maxGasLimit)
        r   == ApplyMessage(txn, cfg)
    IN [ Status       |-> StatusOf(r.applyErr, r.execNil, r.vmErr),
         IntrinsicGas |-> ReportedIntrinsicGas(req.gasSchedule),
         CustomIntrinsic |-> UsesCustomIntrinsicGas(req.gasSchedule),
         ApplyErr     |-> r.applyErr,
         GasUsed      |-> IF r.execNil THEN 0 ELSE r.receiptGasUsed,
         Err          |-> IF r.execNil THEN ErrNone ELSE r.vmErr,
         OpcodeCount  |-> r.opcodeCount,
         cfg          |-> cfg ]

\* executeSingleTransaction once the contexts are built: the executionResult,
\* with the tracer's opcode count that executeTransactionDual adds to it.
executeSingleTransaction(txn, gasSchedule, maxGasLimit) ==
    LET cfg == ExecConfig(txn, gasSchedule, maxGasLimit)
        r   == ApplyMessage(txn, cfg)
    IN [ Status       |-> StatusOf(r.applyErr, r.execNil, r.vmErr),
         IntrinsicGas |-> ReportedIntrinsicGas(gasSchedule),
         CustomIntrinsic |-> UsesCustomIntrinsicGas(gasSchedule),
         ApplyErr     |-> r.applyErr,
         GasUsed      |-> IF r.execNil THEN 0 ELSE r.receiptGasUsed,
         Err          |-> IF r.execNil THEN ErrNone ELSE r.vmErr,
         OpcodeCount  |-> r.opcodeCount,
         cfg          |-> cfg ]

\* Mutant of Diverged: the earlier rule, opcode counts only.
DivergedCountsOnly(original, simulated) ==
    original.OpcodeCount # simulated.OpcodeCount

\* diverged (part_002:704-705)
Diverged(original, simulated) ==
    \/ original.OpcodeCount # simulated.OpcodeCount
    \/ original.Status # simulated.Status

\* txError (part_002:708-713)
TxError(original, simulated) ==
    IF original.ApplyErr # ErrNone THEN "original: " \o original.ApplyErr
    ELSE IF simulated.ApplyErr # ErrNone THEN simulated.ApplyErr
    ELSE ""

\* The TxSummary of transaction txn at index idx (part_002:716-730).
Summary(txn, idx, original, simulated) ==
    [ Hash            |-> txn.hash,
      Index           |-> idx,
      OriginalStatus  |-> original.Status,
      SimulatedStatus |-> simulated.Status,
      OriginalGas     |-> original.GasUsed,
      SimulatedGas    |-> simulated.GasUsed,
      Diverged        |-> Diverged(original, simulated),
      Error           |-> TxError(original, simulated) ]

\* Mutant of AppendSummary: a transaction whose baseline failed is left out.
AppendSummarySkipFailed(txs, summary) ==
    IF summary.OriginalStatus = "failed" THEN txs ELSE Append(txs, summary)

\* result.Transactions = append(result.Transactions, txSummary) (part_002:731)
AppendSummary(txs, summary) == Append(txs, summary)

\* Mutant of SimulatedView: the simulated run reuses the baseline's view.
SimulatedViewShared(callerTx, dbTx1, dbTx2) == dbTx1

\* The view executeTransactionDual hands to the baseline run (part_002:888) and
\* to the simulated run (part_002:906); the caller's view is not used.
OriginalView(callerTx, dbTx1, dbTx2) == dbTx1
SimulatedView(callerTx, dbTx1, dbTx2) == dbTx2

\* SimulationTracer.GetRawBreakdown of one run: the interpreter's opcodes are
\* all reported under the mnemonic ADD at the table's constant gas.
RawBreakdown(res) ==
    IF res.OpcodeCount = 0 THEN EmptyMap
    ELSE [o \in {"ADD"} |->
            [Count |-> res.OpcodeCount,
             Gas   |-> MulU64(res.OpcodeCount, res.cfg.customJT.table["ADD"])]]

ZeroSummary == [OriginalCount |-> 0, OriginalGas |-> 0, SimulatedCount |-> 0, SimulatedGas |-> 0]

\* combineOpcodeBreakdowns
combineOpcodeBreakdowns(originalBreakdown, simulatedBreakdown) ==
    [o \in (DOMAIN originalBreakdown) \cup (DOMAIN simulatedBreakdown) |->
        [ OriginalCount  |-> IF o \in DOMAIN originalBreakdown
                             THEN originalBreakdown[o].Count ELSE 0,
          OriginalGas    |-> IF o \in DOMAIN originalBreakdown
                             THEN originalBreakdown[o].Gas ELSE 0,
          SimulatedCount |-> IF o \in DOMAIN simulatedBreakdown
                             THEN simulatedBreakdown[o].Count ELSE 0,
          SimulatedGas   |-> IF o \in DOMAIN simulatedBreakdown
                             THEN simulatedBreakdown[o].Gas ELSE 0 ]]

\* The aggregation loop and the TX_INTRINSIC entry of SimulateBlockGas
\* (part_002:738-753).
AggregateBreakdown(acc, dual, original, simulated) ==
    LET merged == [o \in (DOMAIN acc) \cup (DOMAIN dual) |->
                    LET e == IF o \in DOMAIN acc THEN acc[o] ELSE ZeroSummary
                        d == IF o \in DOMAIN dual THEN dual[o] ELSE ZeroSummary
                    IN [ OriginalCount  |-> AddU64(e.OriginalCount, d.OriginalCount),
                         OriginalGas    |-> AddU64(e.OriginalGas, d.OriginalGas),
                         SimulatedCount |-> AddU64(e.SimulatedCount, d.SimulatedCount),
                         SimulatedGas   |-> AddU64(e.SimulatedGas, d.SimulatedGas) ]]
        i == IF "TX_INTRINSIC" \in DOMAIN merged THEN merged["TX_INTRINSIC"] ELSE ZeroSummary
    IN [o \in (DOMAIN merged) \cup {"TX_INTRINSIC"} |->
          IF o = "TX_INTRINSIC"
          THEN [ OriginalCount  |-> AddU64(i.OriginalCount, 1),
                 OriginalGas    |-> AddU64(i.OriginalGas, original.IntrinsicGas),
                 SimulatedCount |-> AddU64(i.SimulatedCount, 1),
                 SimulatedGas   |-> AddU64(i.SimulatedGas, simulated.IntrinsicGas) ]
          ELSE merged[o]]

CallerView == 1

DriverInit ==
    /\ req \in [gasSchedule : DriverSchedules, maxGasLimit : BOOLEAN]
    /\ block \in Blocks
    /\ drvState = "start"
    /\ txIndex = 0
    /\ transactions = <<>>
    /\ totals = [origGasUsed |-> 0, simGasUsed |-> 0,
                 origExceeds |-> FALSE, simExceeds |-> FALSE]
    /\ opcodeBreakdown = EmptyMap
    /\ nextView = 0
    /\ nextTracer = 0
    /\ runs = <<>>
    /\ dualResults = <<>>
    /\ infraFail = "none"
    /\ txGasResult = <<>>

\* SimulateBlockGas up to its loop: the caller's view is opened and the block
\* is read (part_002:650-680).
DrvBegin ==
    /\ drvState = "start"
    /\ nextView' = CallerView
    /\ drvState' = "running"
    /\ UNCHANGED <<req, block, txIndex, transactions, totals, opcodeBreakdown,
                   nextTracer, runs, dualResults, infraFail, txGasResult>>

\* ... or it returns an error: the view cannot be opened, the block cannot be
\* read or is not found (part_002:650-664).
DrvBeginFail ==
    /\ drvState = "start"
    /\ \E f \in {"begin", "blockByNumber", "blockNotFound"} :
          /\ infraFail' = f
          /\ nextView' = IF f = "begin" THEN 0 ELSE CallerView
    /\ drvState' = "error"
    /\ UNCHANGED <<req, block, txIndex, transactions, totals, opcodeBreakdown,
                   nextTracer, runs, dualResults, txGasResult>>

RunRecord(idx, side, view, tracer, cfg) ==
    [tx |-> idx, side |-> side, view |-> view, tracer |-> tracer, cfg |-> cfg]

\* One iteration of the loop of SimulateBlockGas with executeTransactionDual
\* returning a result (part_002:683-754, 870-924).
DrvTx ==
    /\ drvState = "running"
    /\ txIndex < Len(block)
    /\ LET txn       == block[txIndex + 1]
           dbTx1     == nextView + 1
           dbTx2     == nextView + 2
           tracer1   == nextTracer + 1
           tracer2   == nextTracer + 2
           original  == executeSingleTransaction(txn, NilSchedule, FALSE)
           simulated == executeSingleTransaction(txn, req.gasSchedule, req.maxGasLimit)
           dual      == combineOpcodeBreakdowns(RawBreakdown(original), RawBreakdown(simulated))
       IN /\ runs' = runs \o
                << RunRecord(txIndex, "original",
                             OriginalView(CallerView, dbTx1, dbTx2), tracer1, original.cfg),
                   RunRecord(txIndex, "simulated",
                             SimulatedView(CallerView, dbTx1, dbTx2), tracer2, simulated.cfg) >>
          /\ dualResults' = Append(dualResults,
                                   [Original |-> original, Simulated |-> simulated])
          /\ transactions' = AppendSummary(transactions,
                                           Summary(txn, txIndex, original, simulated))
          /\ totals' = [totals EXCEPT
                          !.origGasUsed = AddU64(@, original.GasUsed),
                          !.simGasUsed = AddU64(@, simulated.GasUsed)]
          /\ opcodeBreakdown' = AggregateBreakdown(opcodeBreakdown, dual, original, simulated)
    /\ nextView' = nextView + 2
    /\ nextTracer' = nextTracer + 2
    /\ txIndex' = txIndex + 1
    /\ UNCHANGED <<req, block, drvState, infraFail, txGasResult>>

\* One iteration in which executeTransactionDual returns an error: a view
\* cannot be opened or a context cannot be built (part_002:881-909, 973-984).
\* SimulateBlockGas returns that error and no result (part_002:688-690).
DrvTxFail ==
    /\ drvState = "running"
    /\ txIndex < Len(block)
    /\ \E f \in {"begin1", "context1", "begin2", "context2"} :
         LET txn     == block[txIndex + 1]
             dbTx1   == nextView + 1
             dbTx2   == nextView + 2
             tracer1 == nextTracer + 1
             tracer2 == nextTracer + 2
             run1    == RunRecord(txIndex, "original",
                                  OriginalView(CallerView, dbTx1, dbTx2), tracer1,
                                  ExecConfig(txn, NilSchedule, FALSE))
             run2    == RunRecord(txIndex, "simulated",
                                  SimulatedView(CallerView, dbTx1, dbTx2), tracer2,
                                  ExecConfig(txn, req.gasSchedule, req.maxGasLimit))
         IN /\ infraFail' = f
            /\ nextView' = CASE f = "begin1" -> nextView
                              [] f = "context1" -> nextView + 1
                              [] f = "begin2" -> nextView + 1
                              [] f = "context2" -> nextView + 2
            /\ nextTracer' = CASE f = "begin1" -> nextTracer
                                [] f = "context1" -> nextTracer + 1
                                [] f = "begin2" -> nextTracer + 1
                                [] f = "context2" -> nextTracer + 2
            /\ runs' = CASE f = "begin1" -> runs
                          [] f = "context1" -> Append(runs, run1)
                          [] f = "begin2" -> Append(runs, run1)
                          [] f = "context2" -> runs \o <<run1, run2>>
    /\ drvState' = "error"
    /\ UNCHANGED <<req, block, txIndex, transactions, totals, opcodeBreakdown,
                   dualResults, txGasResult>>

\* After the loop: the limit flags are set and the result is returned
\* (part_002:756-760).
DrvFinish ==
    /\ drvState = "running"
    /\ txIndex = Len(block)
    /\ totals' = [totals EXCEPT
                    !.origExceeds = totals.origGasUsed > BlockGasLimit,
                    !.simExceeds = totals.simGasUsed > BlockGasLimit]
    /\ drvState' = "done"
    /\ UNCHANGED <<req, block, txIndex, transactions, opcodeBreakdown,
                   nextView, nextTracer, runs, dualResults, infraFail, txGasResult>>

\* SimulateTransactionGas returning a result for the transaction at position
\* idx of its block (part_002:764-858): the caller's view is opened, the
\* transaction is looked up, both runs are made and the result is built from
\* the dualExecutionResult.
SimulateTransactionGas ==
    /\ drvState = "start"
    /\ \E idx \in 0..(Len(block) - 1) :
         LET txn       == block[idx + 1]
             dbTx1     == CallerView + 1
             dbTx2     == CallerView + 2
             original  == executeSingleTransaction(txn, NilSchedule, FALSE)
             simulated == executeSingleTransaction(txn, req.gasSchedule, req.maxGasLimit)
             dual      == combineOpcodeBreakdowns(RawBreakdown(original), RawBreakdown(simulated))
         IN /\ runs' = << RunRecord(idx, "original",
                                    OriginalView(CallerView, dbTx1, dbTx2), 1, original.cfg),
                          RunRecord(idx, "simulated",
                                    SimulatedView(CallerView, dbTx1, dbTx2), 2, simulated.cfg) >>
            /\ txGasResult' =
                  << [ TransactionHash |-> txn.hash,
                       Status          |-> original.Status,
                       Original        |-> [ GasUsed      |-> original.GasUsed,
                                             IntrinsicGas |-> original.IntrinsicGas,
                                             ExecutionGas |->
                                                 IF original.GasUsed > original.IntrinsicGas
                                                 THEN original.GasUsed - original.IntrinsicGas
                                                 ELSE 0 ],
                       Simulated       |-> [ GasUsed      |-> simulated.GasUsed,
                                             IntrinsicGas |-> simulated.IntrinsicGas,
                                             ExecutionGas |->
                                                 IF simulated.GasUsed > simulated.IntrinsicGas
                                                 THEN simulated.GasUsed - simulated.IntrinsicGas
                                                 ELSE 0 ],
                       OpcodeBreakdown |-> dual ] >>
    /\ nextView' = CallerView + 2
    /\ nextTracer' = 2
    /\ drvState' = "txdone"
    /\ UNCHANGED <<req, block, txIndex, transactions, totals, opcodeBreakdown,
                   dualResults, infraFail>>

\* ... or returning an error: the view cannot be opened, the transaction is
\* not found or is in another block, the block cannot be read, or
\* executeTransactionDual fails (part_002:768-816).
SimulateTransactionGasFail ==
    /\ drvState = "start"
    /\ \E f \in {"begin", "txnLookup", "txNotFound", "blockMismatch",
                  "blockByNumber", "execute"} :
          /\ infraFail' = f
          /\ nextView' = IF f = "begin" THEN 0 ELSE CallerView
    /\ drvState' = "error"
    /\ UNCHANGED <<req, block, txIndex, transactions, totals, opcodeBreakdown,
                   nextTracer, runs, dualResults, txGasResult>>

\* ------------------------------------------------------------------------
\* Properties of the dual execution driver
\* ------------------------------------------------------------------------
NoKeys(c) == c.kind = "nilptr" \/ DOMAIN c.ov = {}

\* C1: with a nil schedule or a schedule without keys, and max_gas_limit
\* false, the simulated run of every transaction is configured exactly like
\* the baseline run (no custom jump table, no schedule on the interpreter, the
\* transaction's own gas limit, no bailout), so gas used, status and opcode
\* counts of both runs are equal for every transaction and every opcode.
C1_EmptyScheduleIsBaseline ==
    (NoKeys(req.gasSchedule) /\ ~req.maxGasLimit) =>
        /\ \A i \in 1..Len(dualResults) :
             LET o == dualResults[i].Original
                 m == dualResults[i].Simulated
             IN /\ m.cfg = o.cfg
                /\ ~m.cfg.customJT.set
                /\ m.cfg.gasSchedule = NilSchedule
                /\ m.cfg.msgGas = block[i].gas
                /\ ~m.cfg.gasBailout
                /\ m.GasUsed = o.GasUsed
                /\ m.Status = o.Status
                /\ m.OpcodeCount = o.OpcodeCount
        /\ \A op \in DOMAIN opcodeBreakdown :
             /\ opcodeBreakdown[op].OriginalCount = opcodeBreakdown[op].SimulatedCount
             /\ opcodeBreakdown[op].OriginalGas = opcodeBreakdown[op].SimulatedGas

C1_Witness ==
    /\ drvState = "done"
    /\ req.gasSchedule.kind = "map"
    /\ DOMAIN req.gasSchedule.ov = {}
    /\ ~req.maxGasLimit
    /\ Len(dualResults) = MaxTxs
    /\ \E i \in 1..Len(dualResults) : dualResults[i].Simulated.OpcodeCount > 0
    /\ "ADD" \in DOMAIN opcodeBreakdown

\* C5: a SimulateBlockGas that returns a result returns exactly one TxSummary
\* per transaction of the block, in block order, with Index the position in
\* the block, failed transactions included.
C5_OneSummaryPerTx ==
    drvState = "done" =>
        /\ Len(transactions) = Len(block)
        /\ \A i \in 1..Len(transactions) :
             /\ transactions[i].Index = i - 1
             /\ transactions[i].Hash = block[i].hash

C5_Witness ==
    /\ drvState = "done"
    /\ Len(transactions) = 2
    /\ transactions[1].OriginalStatus = "failed"
    /\ transactions[1].Error # ""
    /\ transactions[2].OriginalStatus = "failed"
    /\ transactions[2].Error = ""
    /\ transactions[2].Index = 1

\* C6: every run has a state view and a tracer of its own: no view and no
\* tracer is used by two runs, and the caller's view is used by none.
C6_RunsIsolated ==
    /\ \A i \in 1..Len(runs) : runs[i].view # CallerView
    /\ \A i, j \in 1..Len(runs) :
         i # j => /\ runs[i].view # runs[j].view
                  /\ runs[i].tracer # runs[j].tracer

C6_Witness ==
    /\ Len(runs) = 4
    /\ runs[1].side = "original"
    /\ runs[2].side = "simulated"
    /\ runs[1].tx = runs[2].tx
    /\ drvState = "done"

RunsOf(idx, side) == { k \in 1..Len(runs) : runs[k].tx = idx /\ runs[k].side = side }

\* C8: a message that fails before the interpreter starts, on either side,
\* gives that side status failed with the error kept as apply_err and a
\* non-empty error string in the summary; each side is run once, the driver
\* returns an error only for an infrastructure failure, and the loop goes on
\* to the end of the block.
C8_ApplyErrorIsResult ==
    /\ \A i \in 1..Len(dualResults) :
         LET o == dualResults[i].Original
             m == dualResults[i].Simulated
         IN /\ o.ApplyErr # ErrNone => (o.Status = "failed" /\ o.GasUsed = 0)
            /\ m.ApplyErr # ErrNone => (m.Status = "failed" /\ m.GasUsed = 0)
            /\ (o.ApplyErr # ErrNone \/ m.ApplyErr # ErrNone) =>
                  (i <= Len(transactions) /\ transactions[i].Error # "")
            /\ Cardinality(RunsOf(i - 1, "original")) = 1
            /\ Cardinality(RunsOf(i - 1, "simulated")) = 1
    /\ drvState = "error" => infraFail # "none"
    /\ drvState = "done" => Len(dualResults) = Len(block)

C8_Witness ==
    /\ drvState = "done"
    /\ Len(dualResults) = 2
    /\ dualResults[1].Original.ApplyErr # ErrNone
    /\ dualResults[1].Simulated.Status = "success"
    /\ transactions[1].Error # ""

\* C12: with max_gas_limit true the simulated run of each transaction has the
\* message gas replaced by the block header's gas limit, the gas check
\* disabled, the bailout enabled and a gas pool of the replaced limit; with
\* max_gas_limit false it has the transaction's own gas limit, the gas check
\* on and no bailout.  The baseline run is always of the second kind.
C12_MaxGasLimitConfig ==
    \A k \in 1..Len(runs) :
        LET cfg == runs[k].cfg
            txn == block[runs[k].tx + 1]
        IN IF runs[k].side = "simulated" /\ req.maxGasLimit
           THEN /\ cfg.msgGas = BlockGasLimit
                /\ ~cfg.checkGas
                /\ cfg.gasBailout
                /\ cfg.gasPool = BlockGasLimit
           ELSE /\ cfg.msgGas = txn.gas
                /\ cfg.checkGas
                /\ ~cfg.gasBailout
                /\ cfg.gasPool = txn.gas

\* Transaction a, out of gas under the dearer ADD with its own limit, runs to
\* its end under the block's limit.
C12_Witness ==
    /\ drvState = "done"
    /\ req.maxGasLimit
    /\ Len(dualResults) = 2
    /\ block[1].gas # BlockGasLimit
    /\ runs[2].side = "simulated"
    /\ runs[2].cfg.msgGas = BlockGasLimit
    /\ dualResults[1].Simulated.Status = "success"
    /\ dualResults[1].Simulated.GasUsed > block[1].gas

\* C14: HasIntrinsicOverrides is true iff the schedule holds at least one of
\* the nine TX_ keys, and false for a nil schedule and a nil map; the driver
\* reports the patched intrinsic gas for the simulated side exactly when it is
\* true and the baseline intrinsic gas otherwise, and always the baseline
\* intrinsic gas for the baseline side.
C14_IntrinsicOverridesIffTxKey ==
    LET g     == req.gasSchedule
        txKey == /\ g.kind = "map"
                 /\ \E key \in DOMAIN g.ov :
                       key \in { "TX_BASE", "TX_CREATE_BASE", "TX_DATA_ZERO",
                                 "TX_DATA_NONZERO", "TX_ACCESS_LIST_ADDR",
                                 "TX_ACCESS_LIST_KEY", "TX_INIT_CODE_WORD",
                                 "TX_FLOOR_PER_TOKEN", "TX_AUTH_COST" }
    IN /\ HasIntrinsicOverrides(g) <=> txKey
       /\ \A i \in 1..Len(dualResults) :
            LET o == dualResults[i].Original
                m == dualResults[i].Simulated
            IN /\ ~o.CustomIntrinsic /\ o.IntrinsicGas = TxGas
               /\ m.CustomIntrinsic <=> txKey
               /\ m.IntrinsicGas = IF txKey /\ "TX_BASE" \in DOMAIN g.ov
                                    THEN g.ov["TX_BASE"] ELSE TxGas

\* A schedule whose only TX_ key is not the base key: the patched function is
\* used for the simulated side of every transaction of the block.
C14_Witness ==
    /\ drvState = "done"
    /\ Len(dualResults) = 2
    /\ DOMAIN req.gasSchedule.ov = {"ADD", "TX_AUTH_COST"}
    /\ dualResults[2].Simulated.CustomIntrinsic
    /\ ~dualResults[2].Original.CustomIntrinsic

\* C15 (as claimed): the opcode breakdown returned to the caller holds a
\* TX_INTRINSIC entry with the baseline and the simulated intrinsic gas and a
\* count of one per transaction and side: in the SimulateBlockGas result its
\* counts are the number of transactions processed, and the
\* SimulateTransactionGas result holds it with counts of one.
C15_TxIntrinsicEntry ==
    /\ Len(dualResults) > 0 =>
          /\ "TX_INTRINSIC" \in DOMAIN opcodeBreakdown
          /\ opcodeBreakdown["TX_INTRINSIC"].OriginalCount = Len(dualResults)
          /\ opcodeBreakdown["TX_INTRINSIC"].SimulatedCount = Len(dualResults)
          /\ opcodeBreakdown["TX_INTRINSIC"].OriginalGas =
                SumSeq([i \in 1..Len(dualResults) |-> dualResults[i].Original.IntrinsicGas])
          /\ opcodeBreakdown["TX_INTRINSIC"].SimulatedGas =
                SumSeq([i \in 1..Len(dualResults) |-> dualResults[i].Simulated.IntrinsicGas])
    /\ txGasResult # <<>> =>
          /\ "TX_INTRINSIC" \in DOMAIN txGasResult[1].OpcodeBreakdown
          /\ txGasResult[1].OpcodeBreakdown["TX_INTRINSIC"] =
                [ OriginalCount  |-> 1,
                  OriginalGas    |-> txGasResult[1].Original.IntrinsicGas,
                  SimulatedCount |-> 1,
                  SimulatedGas   |-> txGasResult[1].Simulated.IntrinsicGas ]
    /\ infraFail = "none"

\* The baseline of a transaction, written without the request: the
\* configuration without schedule and custom table, with the transaction's own
\* gas limit and without bailout, and what the interpreter returns under it.
BaselineCfg(txn) ==
    [ customJT    |-> [set |-> FALSE, table |-> BaseJumpTable],
      gasSchedule |-> NilSchedule,
      msgGas      |-> txn.gas,
      checkGas    |-> TRUE,
      gasBailout  |-> FALSE,
      gasPool     |-> txn.gas ]

BaselineOf(txn) ==
    LET r == ApplyMessage(txn, BaselineCfg(txn))
    IN [ GasUsed      |-> IF r.execNil THEN 0 ELSE r.receiptGasUsed,
         Status       |-> IF r.applyErr # ErrNone \/ (~r.execNil /\ r.vmErr # ErrNone)
                          THEN "failed" ELSE "success",
         IntrinsicGas |-> TxGas,
         OpcodeCount  |-> r.opcodeCount,
         OpcodeGas    |-> r.opcodeCount * AddConstantGas ]

OriginalOpcodes(breakdown) ==
    IF "ADD" \in DOMAIN breakdown
    THEN <<breakdown["ADD"].OriginalCount, breakdown["ADD"].OriginalGas>>
    ELSE <<0, 0>>

\* C30: the baseline result of a transaction does not depend on the request's
\* gas_schedule and max_gas_limit: every baseline run has no schedule, no
\* custom dispatch table, the transaction's own gas limit and the bailout
\* disabled, and the original gas used, status, intrinsic gas and opcode
\* counts reported, per transaction and in the block's totals, are those of
\* the transaction alone.
C30_BaselineIndependentOfRequest ==
    /\ \A k \in 1..Len(runs) :
          runs[k].side = "original" => runs[k].cfg = BaselineCfg(block[runs[k].tx + 1])
    /\ \A i \in 1..Len(dualResults) :
          LET o == dualResults[i].Original
              b == BaselineOf(block[i])
          IN /\ o.GasUsed = b.GasUsed
             /\ o.Status = b.Status
             /\ o.IntrinsicGas = b.IntrinsicGas
             /\ o.OpcodeCount = b.OpcodeCount
             /\ transactions[i].OriginalStatus = b.Status
             /\ transactions[i].OriginalGas = b.GasUsed
    /\ drvState \in {"running", "done"} =>
          /\ totals.origGasUsed =
                SumSeq([i \in 1..Len(dualResults) |-> BaselineOf(block[i]).GasUsed])
          /\ OriginalOpcodes(opcodeBreakdown) =
                << SumSeq([i \in 1..Len(dualResults) |-> BaselineOf(block[i]).OpcodeCount]),
                   SumSeq([i \in 1..Len(dualResults) |-> BaselineOf(block[i]).OpcodeGas]) >>
    /\ txGasResult # <<>> =>
          LET res == txGasResult[1]
              b   == BaselineOf(CHOOSE t \in TxKinds : t.hash = res.TransactionHash)
          IN /\ res.Status = b.Status
             /\ res.Original.GasUsed = b.GasUsed
             /\ res.Original.IntrinsicGas = b.IntrinsicGas
             /\ OriginalOpcodes(res.OpcodeBreakdown) = <<b.OpcodeCount, b.OpcodeGas>>

\* A block whose first transaction is a, simulated under a schedule with
\* overrides and the block's gas limit: the simulated side differs, the
\* baseline is a's own.
C30_Witness ==
    /\ drvState = "done"
    /\ req.maxGasLimit
    /\ HasOverrides(req.gasSchedule)
    /\ Len(dualResults) = 2
    /\ block[1].hash = "a"
    /\ dualResults[1].Original.Status = "success"
    /\ dualResults[1].Original.GasUsed = 21009
    /\ dualResults[1].Simulated.GasUsed > 21009
    /\ runs[1].side = "original"
    /\ runs[1].cfg.gasSchedule = NilSchedule
    /\ runs[2].cfg.gasSchedule # NilSchedule

\* ------------------------------------------------------------------------
\* Precompile gas with overrides (precompile_gas.go)
\* ------------------------------------------------------------------------
\* params.* defaults the formulas fall back to
Sha256BaseGas == 60
Sha256PerWordGas == 12
Ripemd160BaseGas == 600
Ripemd160PerWordGas == 120
IdentityBaseGas == 15
IdentityPerWordGas == 3
Bn254PairingBaseGasIstanbul == 45000
Bn254PairingPerPointGasIstanbul == 34000
Bls12381PairingBaseGas == 37700
Bls12381PairingPerPairGas == 32600
Bls12381G1MulGas == 12000
Bls12381G2MulGas == 22500
ModexpMinGasDefault == 200
Blake2fInputLen == 213
Bn254PairSize == 192
Bls12PairSize == 384
G1PointSize == 160
G2PointSize == 288

\* params.Bls12381MSMDiscountTableG1 / G2: the entries the modelled inputs
\* reach (k <= 3 points) and the length of the tables.
MSMDiscountTableLen == 128
Bls12381MSMDiscountTableG1 == <<1000, 949, 848>>
Bls12381MSMDiscountTableG2 == <<1000, 1000, 923>>

FixedGasNames ==
    { "ECREC", "BN254_ADD", "BN254_MUL", "BLS12_G1ADD", "BLS12_G2ADD",
      "BLS12_MAP_FP_TO_G1", "BLS12_MAP_FP2_TO_G2", "KZG_POINT_EVALUATION", "P256VERIFY" }

\* An input is its length and, for BLAKE2F, the big-endian word of its first
\* four bytes.
InputLens == {0, 33, 212, 213, 214, 320, 576}

\* An input is its length and the big-endian uint32 of its first four bytes.
Inputs ==
    { [len |-> l, rounds |-> 0] : l \in InputLens }
    \cup { [len |-> l, rounds |-> 12] : l \in {212, 213, 214} }

precompileBasePerWord(schedule, baseKey, perWordKey, input, defaultBase, defaultPerWord) ==
    LET base    == GetOr(schedule, baseKey, defaultBase)
        perWord == GetOr(schedule, perWordKey, defaultPerWord)
        words   == (input.len + 31) \div 32
    IN AddU64(base, MulU64(perWord, words))

precompileBasePerPair(schedule, baseKey, perPairKey, input, pairSize, defaultBase, defaultPerPair) ==
    LET base    == GetOr(schedule, baseKey, defaultBase)
        perPair == GetOr(schedule, perPairKey, defaultPerPair)
        pairs   == input.len \div pairSize
    IN AddU64(base, MulU64(perPair, pairs))

\* Mutant of precompileBlake2f: the input length is not looked at.
precompileBlake2fAnyLength(schedule, input) ==
    LET base     == GetOr(schedule, "PC_BLAKE2F_BASE", 0)
        perRound == GetOr(schedule, "PC_BLAKE2F_PER_ROUND", 1)
    IN AddU64(base, MulU64(perRound, input.rounds))

precompileBlake2f(schedule, input) ==
    IF input.len # Blake2fInputLen THEN 0
    ELSE LET base     == GetOr(schedule, "PC_BLAKE2F_BASE", 0)
             perRound == GetOr(schedule, "PC_BLAKE2F_PER_ROUND", 1)
         IN AddU64(base, MulU64(perRound, input.rounds))

precompileMsm(schedule, mulGasKey, input, pointSize, defaultMulGas) ==
    LET k      == input.len \div pointSize
        mulGas == GetOr(schedule, mulGasKey, defaultMulGas)
        table  == IF pointSize = G1PointSize THEN Bls12381MSMDiscountTableG1
                  ELSE Bls12381MSMDiscountTableG2
        discount == IF k < MSMDiscountTableLen THEN table[k] ELSE table[MSMDiscountTableLen]
    IN IF k = 0 THEN 0
       ELSE MulU64(MulU64(k, mulGas), discount) \div 1000

precompileModexp(schedule, defaultGas) ==
    LET minGas == GetOr(schedule, "PC_MODEXP_MIN_GAS", ModexpMinGasDefault)
    IN IF defaultGas < minGas THEN minGas ELSE defaultGas

PrecompileGasWithOverrides(schedule, name, input, defaultGas) ==
    IF schedule.kind = "nilptr" THEN defaultGas
    ELSE CASE name \in FixedGasNames -> GetOr(schedule, "PC_" \o name, defaultGas)
           [] name = "SHA256" ->
                precompileBasePerWord(schedule, "PC_SHA256_BASE", "PC_SHA256_PER_WORD",
                                      input, Sha256BaseGas, Sha256PerWordGas)
           [] name = "RIPEMD160" ->
                precompileBasePerWord(schedule, "PC_RIPEMD160_BASE", "PC_RIPEMD160_PER_WORD",
                                      input, Ripemd160BaseGas, Ripemd160PerWordGas)
           [] name = "ID" ->
                precompileBasePerWord(schedule, "PC_ID_BASE", "PC_ID_PER_WORD",
                                      input, IdentityBaseGas, IdentityPerWordGas)
           [] name = "MODEXP" -> precompileModexp(schedule, defaultGas)
           [] name = "BN254_PAIRING" ->
                precompileBasePerPair(schedule, "PC_BN254_PAIRING_BASE",
                                      "PC_BN254_PAIRING_PER_PAIR", input, Bn254PairSize,
                                      Bn254PairingBaseGasIstanbul,
                                      Bn254PairingPerPointGasIstanbul)
           [] name = "BLAKE2F" -> precompileBlake2f(schedule, input)
           [] name = "BLS12_PAIRING_CHECK" ->
                precompileBasePerPair(schedule, "PC_BLS12_PAIRING_CHECK_BASE",
                                      "PC_BLS12_PAIRING_CHECK_PER_PAIR", input, Bls12PairSize,
                                      Bls12381PairingBaseGas, Bls12381PairingPerPairGas)
           [] name = "BLS12_G1MSM" ->
                precompileMsm(schedule, "PC_BLS12_G1MSM_MUL_GAS", input, G1PointSize,
                              Bls12381G1MulGas)
           [] name = "BLS12_G2MSM" ->
                precompileMsm(schedule, "PC_BLS12_G2MSM_MUL_GAS", input, G2PointSize,
                              Bls12381G2MulGas)
           [] OTHER -> defaultGas

\* The schedule keys that belong to a precompile.
PrecompileKeys(name) ==
    CASE name \in FixedGasNames -> { "PC_" \o name }
      [] name = "SHA256" -> { "PC_SHA256_BASE", "PC_SHA256_PER_WORD" }
      [] name = "RIPEMD160" -> { "PC_RIPEMD160_BASE", "PC_RIPEMD160_PER_WORD" }
      [] name = "ID" -> { "PC_ID_BASE", "PC_ID_PER_WORD" }
      [] name = "MODEXP" -> { "PC_MODEXP_MIN_GAS" }
      [] name = "BN254_PAIRING" -> { "PC_BN254_PAIRING_BASE", "PC_BN254_PAIRING_PER_PAIR" }
      [] name = "BLAKE2F" -> { "PC_BLAKE2F_BASE", "PC_BLAKE2F_PER_ROUND" }
      [] name = "BLS12_PAIRING_CHECK" ->
           { "PC_BLS12_PAIRING_CHECK_BASE", "PC_BLS12_PAIRING_CHECK_PER_PAIR" }
      [] name = "BLS12_G1MSM" -> { "PC_BLS12_G1MSM_MUL_GAS" }
      [] name = "BLS12_G2MSM" -> { "PC_BLS12_G2MSM_MUL_GAS" }
      [] OTHER -> {}

\* The gas the precompiles of a fork charge by themselves, which the caller
\* passes as defaultGas.  MODEXP's own formula is not modelled: the costs it
\* gives are drawn from a set, which under the Byzantium pricing (EIP-198)
\* has values below 200 and from Berlin on (EIP-2565) has none.
Forks == {"Byzantium", "Berlin", "Prague"}

ForkPrecompiles(fork) ==
    {"ECREC", "SHA256", "RIPEMD160", "ID", "MODEXP", "BN254_ADD", "BN254_MUL", "BN254_PAIRING"}
    \cup (IF fork \in {"Berlin", "Prague"} THEN {"BLAKE2F"} ELSE {})
    \cup (IF fork = "Prague"
          THEN {"KZG_POINT_EVALUATION", "BLS12_G1ADD", "BLS12_G1MSM", "BLS12_G2ADD",
                "BLS12_G2MSM", "BLS12_PAIRING_CHECK", "BLS12_MAP_FP_TO_G1",
                "BLS12_MAP_FP2_TO_G2"}
          ELSE {})

ForkRequiredGas(fork, name, input) ==
    CASE name = "ECREC" -> {3000}
      [] name = "SHA256" -> {Sha256BaseGas + Sha256PerWordGas * ((input.len + 31) \div 32)}
      [] name = "RIPEMD160" ->
           {Ripemd160BaseGas + Ripemd160PerWordGas * ((input.len + 31) \div 32)}
      [] name = "ID" -> {IdentityBaseGas + IdentityPerWordGas * ((input.len + 31) \div 32)}
      [] name = "MODEXP" -> IF fork = "Byzantium" THEN {0, 120, 200, 4080} ELSE {200, 4080}
      [] name = "BN254_ADD" -> IF fork = "Byzantium" THEN {500} ELSE {150}
      [] name = "BN254_MUL" -> IF fork = "Byzantium" THEN {40000} ELSE {6000}
      [] name = "BN254_PAIRING" ->
           IF fork = "Byzantium"
           THEN {100000 + 80000 * (input.len \div Bn254PairSize)}
           ELSE {Bn254PairingBaseGasIstanbul
                   + Bn254PairingPerPointGasIstanbul * (input.len \div Bn254PairSize)}
      [] name = "BLAKE2F" -> {IF input.len = Blake2fInputLen THEN input.rounds ELSE 0}
      [] name = "KZG_POINT_EVALUATION" -> {50000}
      [] name = "BLS12_G1ADD" -> {375}
      [] name = "BLS12_G2ADD" -> {600}
      [] name = "BLS12_MAP_FP_TO_G1" -> {5500}
      [] name = "BLS12_MAP_FP2_TO_G2" -> {23800}
      [] name = "BLS12_PAIRING_CHECK" ->
           {Bls12381PairingBaseGas + Bls12381PairingPerPairGas * (input.len \div Bls12PairSize)}
      [] name = "BLS12_G1MSM" ->
           LET k == input.len \div G1PointSize
           IN {IF k = 0 THEN 0
               ELSE (k * Bls12381G1MulGas * Bls12381MSMDiscountTableG1[k]) \div 1000}
      [] name = "BLS12_G2MSM" ->
           LET k == input.len \div G2PointSize
           IN {IF k = 0 THEN 0
               ELSE (k * Bls12381G2MulGas * Bls12381MSMDiscountTableG2[k]) \div 1000}

VmSchedules ==
    { NilSchedule, NilMapSchedule,
      MapSchedule([k \in {"ADD"} |-> 1]),
      MapSchedule([k \in {"PC_ECREC"} |-> 5000]),
      MapSchedule([k \in {"PC_SHA256_BASE"} |-> 100]),
      MapSchedule([k \in {"PC_MODEXP_MIN_GAS"} |-> 300]),
      MapSchedule([k \in {"PC_BLS12_G1MSM_MUL_GAS"} |-> 10000]),
      MapSchedule([k \in {"PC_BLAKE2F_BASE"} |-> 10]),
      MapSchedule([k \in {"PC_BLAKE2F_PER_ROUND"} |-> 3]),
      MapSchedule([k \in {"PC_BLAKE2F_BASE", "PC_BLAKE2F_PER_ROUND"} |-> 0]),
      MapSchedule([k \in {"PC_BLAKE2F_PER_ROUND"} |-> U64 \div 8]),
      MapSchedule([k \in {"EXP_BYTE"} |-> 50]),
      MapSchedule([k \in {"EXP_BYTE"} |-> U64 \div 2]),
      MapSchedule([k \in {"EXP"} |-> MaxU64]),
      MapSchedule([k \in {"LOG_TOPIC"} |-> U64 \div 2]),
      MapSchedule([k \in {"LOG_DATA"} |-> U64 \div 2]),
      MapSchedule([k \in {"TX_DATA_NONZERO"} |-> 1]),
      MapSchedule([k \in {"TX_DATA_NONZERO"} |-> U64 \div 16]),
      MapSchedule([k \in {"TX_BASE", "TX_CREATE_BASE"} |->
                      IF k = "TX_BASE" THEN 30000 ELSE 60000]),
      MapSchedule([k \in {"TX_DATA_ZERO", "TX_INIT_CODE_WORD", "TX_ACCESS_LIST_ADDR",
                          "TX_ACCESS_LIST_KEY"} |->
                      CASE k = "TX_DATA_ZERO" -> 2 [] k = "TX_INIT_CODE_WORD" -> 5
                        [] k = "TX_ACCESS_LIST_ADDR" -> 1 [] k = "TX_ACCESS_LIST_KEY" -> 3]),
      MapSchedule([k \in {"TX_AUTH_COST"} |-> MaxU64]),
      MapSchedule([k \in {"TX_FLOOR_PER_TOKEN"} |-> U64 \div 64]) }

LookupKeys == {"ADD", "PC_ECREC", "PC_SHA256_BASE", "SLOAD_COLD"}

NoGasCall == [kind |-> "none"]

GasInit ==
    /\ vmSchedule \in VmSchedules
    /\ gasCall = NoGasCall

\* The calls below read the schedule and their arguments only, so a
\* behaviour follows one call of the execution.
\* g.GetOr(key, defaultVal)
GetOrCall ==
    \E key \in LookupKeys, defaultVal \in {0, 7} :
        /\ gasCall = NoGasCall
        /\ gasCall' = [kind |-> "GetOr", key |-> key, defaultVal |-> defaultVal,
                       result |-> GetOr(vmSchedule, key, defaultVal)]
        /\ UNCHANGED vmSchedule

\* A precompile of the fork is called: its own cost is handed to
\* PrecompileGasWithOverrides as defaultGas.
PrecompileCall ==
    \E fork \in Forks, input \in Inputs :
      \E name \in ForkPrecompiles(fork) :
        \E defaultGas \in ForkRequiredGas(fork, name, input) :
          /\ gasCall = NoGasCall
          /\ gasCall' = [kind |-> "precompile", fork |-> fork, name |-> name,
                         input |-> input, defaultGas |-> defaultGas,
                         result |-> PrecompileGasWithOverrides(vmSchedule, name, input,
                                                               defaultGas)]
          /\ UNCHANGED vmSchedule

\* A name that is no precompile of the switch: defaultGas comes back.
PrecompileCallUnknown ==
    \E input \in Inputs, defaultGas \in {0, 700} :
        /\ gasCall = NoGasCall
        /\ gasCall' = [kind |-> "precompile", fork |-> "Prague", name |-> "UNKNOWN",
                       input |-> input, defaultGas |-> defaultGas,
                       result |-> PrecompileGasWithOverrides(vmSchedule, "UNKNOWN", input,
                                                             defaultGas)]
        /\ UNCHANGED vmSchedule

\* A *uint256.Int call cost: fits is IsUint64(), val is Uint64().
CallCosts ==
    { [fits |-> TRUE, val |-> v] : v \in {0, 62, 63, 64, 1000, MaxU64} }
    \cup { [fits |-> FALSE, val |-> 5] }

ErrGasUintOverflow == "gas uint64 overflow"

\* Mutant of callGas: the base cost is deducted without the guard.
callGasUnguarded(isEip150, availableGas, base, callCost) ==
    LET avail == SubU64(availableGas, base)
        gas   == SubU64(avail, avail \div 64)
    IN IF isEip150 /\ (~callCost.fits \/ gas < callCost.val)
       THEN [gas |-> gas, err |-> ErrNone]
       ELSE IF ~callCost.fits THEN [gas |-> 0, err |-> ErrGasUintOverflow]
       ELSE [gas |-> callCost.val, err |-> ErrNone]

\* callGas (datasource.go:1159-1179)
callGas(isEip150, availableGas, base, callCost) ==
    LET avail == SubU64(availableGas, base)
        gas   == SubU64(avail, avail \div 64)
    IN IF isEip150 /\ availableGas < base
       THEN [gas |-> 0, err |-> ErrNone]
       ELSE IF isEip150 /\ (~callCost.fits \/ gas < callCost.val)
       THEN [gas |-> gas, err |-> ErrNone]
       ELSE IF ~callCost.fits THEN [gas |-> 0, err |-> ErrGasUintOverflow]
       ELSE [gas |-> callCost.val, err |-> ErrNone]

\* A CALL-family gas function asks callGas for the child's gas.
CallGasCall ==
    \E isEip150 \in BOOLEAN, availableGas \in {0, 63, 64, 65, 1000, MaxU64},
       base \in {0, 1, 64, 700}, callCost \in CallCosts :
        /\ gasCall = NoGasCall
        /\ gasCall' = [kind |-> "callGas", isEip150 |-> isEip150,
                       availableGas |-> availableGas, base |-> base,
                       callCost |-> callCost,
                       result |-> callGas(isEip150, availableGas, base, callCost)]
        /\ UNCHANGED vmSchedule

KeyPresent(g, key) == g.kind = "map" /\ key \in DOMAIN g.ov

\* C9 (lookup part): GetOr returns the stored value iff the key is present,
\* and the default otherwise, in particular for a nil schedule or a nil map.
C9_GetOrStoredIffPresent ==
    gasCall.kind = "GetOr" =>
        /\ KeyPresent(vmSchedule, gasCall.key) => gasCall.result = vmSchedule.ov[gasCall.key]
        /\ ~KeyPresent(vmSchedule, gasCall.key) => gasCall.result = gasCall.defaultVal

\* C9: every parameter whose key is absent takes the fork default: GetOr
\* returns the stored value iff the key is present, and
\* PrecompileGasWithOverrides with a non-nil schedule that has no key of the
\* named precompile returns the fork's own cost (defaultGas) for every
\* precompile name and input.
C9_AbsentKeysGiveForkDefault ==
    /\ C9_GetOrStoredIffPresent
    /\ (/\ gasCall.kind = "precompile"
        /\ vmSchedule.kind # "nilptr"
        /\ \A key \in PrecompileKeys(gasCall.name) : ~KeyPresent(vmSchedule, key))
       => gasCall.result = gasCall.defaultGas

\* C16: under EIP-150 callGas passes 0 when the available gas is below the
\* base cost, and otherwise min(requested, r - r/64) with r the available gas
\* less the base cost, a request that does not fit 64 bits counting as larger;
\* available 64 and base 0 pass 63, and available 63 and base 0 pass 63 as
\* well (63/64 is 0) when that much is requested; the result is never that of
\* a wrapped subtraction.
C16_CallGasAllButOne64th ==
    (gasCall.kind = "callGas" /\ gasCall.isEip150) =>
        LET a   == gasCall.availableGas
            b   == gasCall.base
            r   == a - b
            cap == r - (r \div 64)
            c   == gasCall.callCost
        IN /\ gasCall.result.err = ErrNone
           /\ a < b => gasCall.result.gas = 0
           /\ a >= b =>
                 gasCall.result.gas = IF c.fits /\ c.val <= cap THEN c.val ELSE cap
           /\ gasCall.result.gas <= a
           /\ (a = 64 /\ b = 0 /\ (~c.fits \/ c.val >= 63)) => gasCall.result.gas = 63
           /\ (a = 63 /\ b = 0 /\ (~c.fits \/ c.val >= 63)) => gasCall.result.gas = 63

\* available 63, base 0 and a request that does not fit 64 bits: 63 is passed.
C16_Witness ==
    /\ gasCall.kind = "callGas"
    /\ gasCall.isEip150
    /\ gasCall.availableGas = 63
    /\ gasCall.base = 0
    /\ ~gasCall.callCost.fits
    /\ gasCall.result.gas = 63

\* C16 (as claimed): available 63 and base 0 pass 62 when at least that much
\* is requested.
C16_Available63Passes62 ==
    ( /\ gasCall.kind = "callGas"
      /\ gasCall.isEip150
      /\ gasCall.availableGas = 63
      /\ gasCall.base = 0
      /\ (~gasCall.callCost.fits \/ gasCall.callCost.val >= 62) )
        => gasCall.result.gas = 62

ColdSloadCostEIP2929 == 2100
WarmStorageReadCostEIP2929 == 100
SstoreSetGasEIP2200 == 20000
SstoreResetGasEIP2200 == 5000
SstoreSentryGasEIP2200 == 2300
TxAccessListStorageKeyGas == 1900

\* has(schedule, key) and get(schedule, key, defaultVal) on a CustomGasSchedule
has(schedule, key) ==
    schedule.kind = "map" /\ key \in DOMAIN schedule.ov

get(schedule, key, defaultVal) ==
    IF has(schedule, key) THEN schedule.ov[key] ELSE defaultVal

\* Mutant of safeSub: the plain uint64 subtraction.
safeSubWrapping(a, b) == SubU64(a, b)

safeSub(a, b) == IF a < b THEN 0 ELSE a - b

\* Mutant of calculateClearingRefund: without the guard.
calculateClearingRefundUnguarded(resetGas, coldSloadCost) ==
    AddU64(SubU64(resetGas, coldSloadCost), TxAccessListStorageKeyGas)

calculateClearingRefund(resetGas, coldSloadCost) ==
    IF coldSloadCost > resetGas THEN 0
    ELSE AddU64(resetGas - coldSloadCost, TxAccessListStorageKeyGas)

\* applyOverrides installs the custom SSTORE function when one of the four
\* keys is present (datasource.go:445-465).
SstoreInstalled(schedule) ==
    \/ has(schedule, "SSTORE_SET") \/ has(schedule, "SSTORE_RESET")
    \/ has(schedule, "SLOAD_COLD") \/ has(schedule, "SLOAD_WARM")

\* Mutant of SstoreGasParams: the sentry is one gas higher.
SstoreGasParamsHighSentry(schedule) ==
    LET coldSloadCost == get(schedule, "SLOAD_COLD", ColdSloadCostEIP2929)
        warmReadCost  == get(schedule, "SLOAD_WARM", WarmStorageReadCostEIP2929)
        setGas        == get(schedule, "SSTORE_SET", SstoreSetGasEIP2200)
        resetGas      == get(schedule, "SSTORE_RESET", SstoreResetGasEIP2200)
    IN [ coldSloadCost  |-> coldSloadCost,
         warmReadCost   |-> warmReadCost,
         setGas         |-> setGas,
         resetGas       |-> resetGas,
         clearingRefund |-> calculateClearingRefund(resetGas, coldSloadCost),
         sentryGas      |-> SstoreSentryGasEIP2200 + 1 ]

SstoreGasParams(schedule) ==
    LET coldSloadCost == get(schedule, "SLOAD_COLD", ColdSloadCostEIP2929)
        warmReadCost  == get(schedule, "SLOAD_WARM", WarmStorageReadCostEIP2929)
        setGas        == get(schedule, "SSTORE_SET", SstoreSetGasEIP2200)
        resetGas      == get(schedule, "SSTORE_RESET", SstoreResetGasEIP2200)
    IN [ coldSloadCost  |-> coldSloadCost,
         warmReadCost   |-> warmReadCost,
         setGas         |-> setGas,
         resetGas       |-> resetGas,
         clearingRefund |-> calculateClearingRefund(resetGas, coldSloadCost),
         sentryGas      |-> SstoreSentryGasEIP2200 ]

\* Schedules over the four keys: cold above and below the reset gas, a warm
\* read cost above the set gas, a reset gas of 0.
SstoreKeyValues ==
    [ SLOAD_COLD   |-> {2000, 6000, MaxU64},
      SLOAD_WARM   |-> {30000},
      SSTORE_SET   |-> {10000},
      SSTORE_RESET |-> {0, 1000, 5000} ]

SstoreKeys == {"SLOAD_COLD", "SLOAD_WARM", "SSTORE_SET", "SSTORE_RESET"}

SstoreSchedules ==
    { MapSchedule(m) : m \in UNION { { f \in [K -> UNION { SstoreKeyValues[k] : k \in SstoreKeys }] :
                                         \A k \in K : f[k] \in SstoreKeyValues[k] } :
                                     K \in (SUBSET SstoreKeys) \ {{}} } }

\* Mutant of SstoreGas: a write to a clean slot is charged the whole reset gas,
\* as before EIP-2929.
SstoreGasPlainReset(p, scopeGas, original, current, value, warm) ==
    LET cost == IF warm THEN 0 ELSE p.coldSloadCost
        none == [err |-> ErrNone, coldPart |-> cost, subbed |-> <<>>, added |-> <<>>,
                 listed |-> TRUE]
    IN IF scopeGas <= p.sentryGas
       THEN [ err |-> "not enough gas for reentrancy sentry", gas |-> 0, coldPart |-> 0,
              branch |-> "sentry", subbed |-> <<>>, added |-> <<>>,
              listed |-> FALSE ]
       ELSE IF current = value
       THEN none @@ [ gas |-> AddU64(cost, p.warmReadCost), branch |-> "noop" ]
       ELSE IF original = current
       THEN IF original = 0
            THEN none @@ [ gas |-> AddU64(cost, p.setGas), branch |-> "create" ]
            ELSE [ none EXCEPT !.added = IF value = 0 THEN <<p.clearingRefund>> ELSE <<>> ] @@
                 [ gas |-> AddU64(cost, p.resetGas),
                   branch |-> "write" ]
       ELSE LET sub1 == IF original # 0 /\ current = 0 THEN <<p.clearingRefund>> ELSE <<>>
                add1 == IF original # 0 /\ current # 0 /\ value = 0
                        THEN <<p.clearingRefund>> ELSE <<>>
                add2 == IF original = value
                        THEN IF original = 0
                             THEN <<safeSub(p.setGas, p.warmReadCost)>>
                             ELSE <<safeSub(safeSub(p.resetGas, p.coldSloadCost),
                                            p.warmReadCost)>>
                        ELSE <<>>
            IN [ none EXCEPT !.subbed = sub1, !.added = add1 \o add2 ] @@
               [ gas |-> AddU64(cost, p.warmReadCost), branch |-> "dirty" ]

\* Mutant of SstoreGas: deleting a dirty slot adds no clearing refund.
SstoreGasNoDeleteRefund(p, scopeGas, original, current, value, warm) ==
    LET cost == IF warm THEN 0 ELSE p.coldSloadCost
        none == [err |-> ErrNone, coldPart |-> cost, subbed |-> <<>>, added |-> <<>>,
                 listed |-> TRUE]
    IN IF scopeGas <= p.sentryGas
       THEN [ err |-> "not enough gas for reentrancy sentry", gas |-> 0, coldPart |-> 0,
              branch |-> "sentry", subbed |-> <<>>, added |-> <<>>,
              listed |-> FALSE ]
       ELSE IF current = value
       THEN none @@ [ gas |-> AddU64(cost, p.warmReadCost), branch |-> "noop" ]
       ELSE IF original = current
       THEN IF original = 0
            THEN none @@ [ gas |-> AddU64(cost, p.setGas), branch |-> "create" ]
            ELSE [ none EXCEPT !.added = IF value = 0 THEN <<p.clearingRefund>> ELSE <<>> ] @@
                 [ gas |-> AddU64(cost, safeSub(p.resetGas, p.coldSloadCost)),
                   branch |-> "write" ]
       ELSE LET sub1 == IF original # 0 /\ current = 0 THEN <<p.clearingRefund>> ELSE <<>>
                add1 == <<>>
                add2 == IF original = value
                        THEN IF original = 0
                             THEN <<safeSub(p.setGas, p.warmReadCost)>>
                             ELSE <<safeSub(safeSub(p.resetGas, p.coldSloadCost),
                                            p.warmReadCost)>>
                        ELSE <<>>
            IN [ none EXCEPT !.subbed = sub1, !.added = add1 \o add2 ] @@
               [ gas |-> AddU64(cost, p.warmReadCost), branch |-> "dirty" ]

\* The function makeCustomSstoreGas returns, applied to the state it reads:
\* the error, the gas, and the amounts it hands to SubRefund and AddRefund in
\* the order of the calls.  coldPart is the value of cost after the access
\* list has been consulted, branch the return statement taken, listed whether
\* AddSlotToAccessList has been called.
SstoreGas(p, scopeGas, original, current, value, warm) ==
    LET cost == IF warm THEN 0 ELSE p.coldSloadCost
        none == [err |-> ErrNone, coldPart |-> cost, subbed |-> <<>>, added |-> <<>>,
                 listed |-> TRUE]
    IN IF scopeGas <= p.sentryGas
       THEN [ err |-> "not enough gas for reentrancy sentry", gas |-> 0, coldPart |-> 0,
              branch |-> "sentry", subbed |-> <<>>, added |-> <<>>,
              listed |-> FALSE ]
       ELSE IF current = value
       THEN none @@ [ gas |-> AddU64(cost, p.warmReadCost), branch |-> "noop" ]
       ELSE IF original = current
       THEN IF original = 0
            THEN none @@ [ gas |-> AddU64(cost, p.setGas), branch |-> "create" ]
            ELSE [ none EXCEPT !.added = IF value = 0 THEN <<p.clearingRefund>> ELSE <<>> ] @@
                 [ gas |-> AddU64(cost, safeSub(p.resetGas, p.coldSloadCost)),
                   branch |-> "write" ]
       ELSE LET sub1 == IF original # 0 /\ current = 0 THEN <<p.clearingRefund>> ELSE <<>>
                add1 == IF original # 0 /\ current # 0 /\ value = 0
                        THEN <<p.clearingRefund>> ELSE <<>>
                add2 == IF original = value
                        THEN IF original = 0
                             THEN <<safeSub(p.setGas, p.warmReadCost)>>
                             ELSE <<safeSub(safeSub(p.resetGas, p.coldSloadCost),
                                            p.warmReadCost)>>
                        ELSE <<>>
            IN [ none EXCEPT !.subbed = sub1, !.added = add1 \o add2 ] @@
               [ gas |-> AddU64(cost, p.warmReadCost), branch |-> "dirty" ]

SlotValues == {0, 1, 2}

\* Gas left in the frame when SSTORE runs: none, the sentry, one more, and
\* enough for a warm and for any write.
SstoreScopeGas ==
    {0, SstoreSentryGasEIP2200, SstoreSentryGasEIP2200 + 1, 9000, 100000}

NoSstore == [err |-> ErrNone, gas |-> 0, coldPart |-> 0, branch |-> "none",
             subbed |-> <<>>, added |-> <<>>, original |-> 0, current |-> 0,
             value |-> 0, warm |-> FALSE, scopeGas |-> 0, outOfGas |-> FALSE,
             listed |-> FALSE]

SstoreInit ==
    /\ \E schedule \in SstoreSchedules :
         /\ SstoreInstalled(schedule)
         /\ sstoreP = SstoreGasParams(schedule)
    /\ slotOriginal \in {0, 1}
    /\ slotCurrent = slotOriginal
    /\ slotWarm \in BOOLEAN
    /\ refundCounter = 0
    /\ refundPanic = FALSE
    /\ sstoreCount = 0
    /\ lastSstore = NoSstore

\* One SSTORE of the transaction: the gas function runs on the state; when it
\* returns no error and the frame can pay, the slot is written, otherwise the
\* frame ends and its changes to the access list and the refund counter are
\* rolled back.
Sstore ==
    /\ ~refundPanic
    /\ sstoreCount < MaxSstores
    /\ sstoreCount' = sstoreCount + 1
    /\ \E value \in SlotValues, scopeGas \in SstoreScopeGas :
         LET r == SstoreGas(sstoreP, scopeGas, slotOriginal, slotCurrent, value, slotWarm)
             oog == r.err = ErrNone /\ scopeGas < r.gas
             afterSub == IF r.subbed = <<>> THEN refundCounter
                         ELSE SubU64(refundCounter, r.subbed[1])
             panic == r.subbed # <<>> /\ r.subbed[1] > refundCounter
         IN /\ lastSstore' = r @@ [original |-> slotOriginal, current |-> slotCurrent,
                                   value |-> value, warm |-> slotWarm,
                                   scopeGas |-> scopeGas, outOfGas |-> oog]
            /\ IF r.err # ErrNone \/ oog
               THEN UNCHANGED <<slotCurrent, slotWarm, refundCounter, refundPanic>>
               ELSE /\ slotCurrent' = value
                    /\ slotWarm' = TRUE
                    /\ refundPanic' = panic
                    /\ refundCounter' = IF panic THEN refundCounter
                                        ELSE AddU64(afterSub, SumSeq(r.added))
    /\ UNCHANGED <<sstoreP, slotOriginal>>

\* Saturating difference on the integers.
SatDiff(a, b) == IF a - b < 0 THEN 0 ELSE a - b

\* C10: with SSTORE_RESET < SLOAD_COLD nothing underflows: the clearing refund
\* is 0, the gas returned is the cold surcharge (if any) plus a term that is
\* not wrapped (a write to a clean existing slot, a clear included, adds 0),
\* every amount added to the refund counter is a saturating difference, and
\* the refund counter is never asked for more than it holds.
C10_NoUnderflowWhenResetBelowCold ==
    sstoreP.resetGas < sstoreP.coldSloadCost =>
        /\ sstoreP.clearingRefund = 0
        /\ ~refundPanic
        /\ lastSstore.branch \in {"noop", "dirty"} =>
             lastSstore.gas = AddU64(lastSstore.coldPart, sstoreP.warmReadCost)
        /\ lastSstore.branch = "create" =>
             lastSstore.gas = AddU64(lastSstore.coldPart, sstoreP.setGas)
        /\ lastSstore.branch = "write" => lastSstore.gas = lastSstore.coldPart
        /\ lastSstore.coldPart \in {0, sstoreP.coldSloadCost}
        /\ \A i \in 1..Len(lastSstore.subbed) : lastSstore.subbed[i] = 0
        /\ \A i \in 1..Len(lastSstore.added) :
             lastSstore.added[i] \in
                { 0, SatDiff(sstoreP.setGas, sstoreP.warmReadCost) }

C10_Witness ==
    /\ sstoreP.resetGas < sstoreP.coldSloadCost
    /\ sstoreP.resetGas > 0
    /\ lastSstore.branch = "write"
    /\ lastSstore.value = 0
    /\ lastSstore.coldPart > 0
    /\ lastSstore.added = <<0>>
    /\ ~lastSstore.outOfGas

C21_ReentrancySentry ==
    lastSstore.branch # "none" =>
        /\ lastSstore.scopeGas <= 2300 =>
             /\ lastSstore.err = "not enough gas for reentrancy sentry"
             /\ lastSstore.gas = 0
             /\ ~lastSstore.listed
             /\ lastSstore.subbed = <<>>
             /\ lastSstore.added = <<>>
        /\ lastSstore.scopeGas = 2301 =>
             /\ lastSstore.err = ErrNone
             /\ lastSstore.listed
        /\ lastSstore.err # ErrNone => lastSstore.scopeGas <= 2300

\* An SSTORE with exactly 2300 gas left on a cold slot that holds a refund
\* fails, after an SSTORE with more gas has cleared the slot.
C21_Witness ==
    /\ lastSstore.scopeGas = 2300
    /\ lastSstore.err = "not enough gas for reentrancy sentry"
    /\ refundCounter > 0
    /\ sstoreCount = 2

\* C29: over any sequence of SSTOREs of one transaction under a fixed schedule
\* the refund counter never goes below zero: SubRefund is only asked for the
\* clearing refund, exactly when a slot with original # 0 and current = 0 is
\* given a value # 0, and whenever a slot is in that condition the counter
\* still holds a clearing refund added for it and not yet subtracted.
C29_RefundNeverBelowZero ==
    /\ ~refundPanic
    /\ (slotOriginal # 0 /\ slotCurrent = 0) => refundCounter >= sstoreP.clearingRefund
    /\ lastSstore.subbed # <<>> =>
         /\ lastSstore.subbed = <<sstoreP.clearingRefund>>
         /\ lastSstore.original # 0
         /\ lastSstore.current = 0
         /\ lastSstore.value # 0
    /\ ( /\ lastSstore.branch \notin {"none", "sentry"}
         /\ lastSstore.original # 0
         /\ lastSstore.current = 0
         /\ lastSstore.value # 0 ) => lastSstore.subbed = <<sstoreP.clearingRefund>>

\* An existing slot is written, deleted and recreated with a third value: the
\* clearing refund added by the deletion has been taken back.
C29_Witness ==
    /\ sstoreCount = 3
    /\ sstoreP.clearingRefund > 0
    /\ lastSstore.subbed = <<sstoreP.clearingRefund>>
    /\ lastSstore.added = <<>>
    /\ lastSstore.err = ErrNone
    /\ ~lastSstore.outOfGas
    /\ slotCurrent = 2
    /\ refundCounter = 0

\* ------------------------------------------------------------------------
\* Jump table construction (custom_gas.go, datasource.go, jump_table.go)
\* ------------------------------------------------------------------------
\* chain.Rules as the latest fork that is active.
ForkOrder ==
    << "Frontier", "TangerineWhistle", "SpuriousDragon", "Byzantium",
       "Istanbul", "Berlin", "London", "Cancun" >>

RuleSets == { ForkOrder[i] : i \in 1..Len(ForkOrder) }

ForkIndex(f) == CHOOSE i \in 1..Len(ForkOrder) : ForkOrder[i] = f

\* rules.IsBerlin, rules.IsIstanbul, ...
IsFork(rules, f) == ForkIndex(rules) >= ForkIndex(f)

ColdAccountAccessCostEIP2929 == 2600
CallValueTransferGas == 9000
CallNewAccountGas == 25000
ExpGas == 10
ExpByteFrontier == 10
ExpByteEIP160 == 50
Keccak256Gas == 30
Keccak256WordGas == 6
LogGas == 375
LogTopicGas == 375
LogDataGas == 8
CopyGas == 3
MemoryGas == 3
CreateBySelfdestructGas == 25000
InitCodeWordGas == 2

\* The opcodes of the modelled tables (a part of opcodeMap).
TableOpcodes ==
    { "STOP", "ADD", "EXP", "KECCAK256", "BALANCE", "SLOAD", "SSTORE", "CALL",
      "STATICCALL", "LOG1", "CALLDATACOPY", "MCOPY" }

NoDynamic == [fn |-> "none"]

\* The dynamic gas functions, as the rule and the parameters they compute with.
makeCustomSloadGasRule(coldCost, warmCost) ==
    [fn |-> "sloadEIP2929", coldCost |-> coldCost, warmCost |-> warmCost]

makeCustomSstoreGasRule(p) == [fn |-> "sstoreEIP2929", p |-> p]

makeCustomExpGasRule(baseGas, byteGas) ==
    [fn |-> "exp", baseGas |-> baseGas, byteGas |-> byteGas]

makeCustomKeccak256GasRule(wordGas) == [fn |-> "keccak256", wordGas |-> wordGas]

makeCustomLogGasRule(n, baseGas, topicGas, dataGas) ==
    [fn |-> "log", topics |-> n, baseGas |-> baseGas, topicGas |-> topicGas,
     dataGas |-> dataGas]

makeCustomCopyGasRule(stackpos, copyGas) ==
    [fn |-> "copy", stackpos |-> stackpos, copyGas |-> copyGas]

makeCustomCallGasEIP2929Rule(callParams) == [fn |-> "callEIP2929", p |-> callParams]

makeCustomStaticCallGasEIP2929Rule(coldCost, warmCost) ==
    [fn |-> "staticCallEIP2929", coldCost |-> coldCost, warmCost |-> warmCost]

\* vm.GetBaseJumpTable(rules): for every opcode whether the fork has it, its
\* constant gas and its dynamic gas rule.
BaseConstantGas(rules, op) ==
    CASE op = "STOP" -> 0
      [] op = "ADD" -> 3
      [] op = "EXP" -> 0
      [] op = "KECCAK256" -> Keccak256Gas
      [] op = "BALANCE" -> IF IsFork(rules, "Berlin") THEN WarmStorageReadCostEIP2929
                           ELSE IF IsFork(rules, "Istanbul") THEN 700
                           ELSE IF IsFork(rules, "TangerineWhistle") THEN 400 ELSE 20
      [] op = "SLOAD" -> IF IsFork(rules, "Berlin") THEN 0
                         ELSE IF IsFork(rules, "Istanbul") THEN 800
                         ELSE IF IsFork(rules, "TangerineWhistle") THEN 200 ELSE 50
      [] op = "SSTORE" -> 0
      [] op \in {"CALL", "STATICCALL"} ->
                         IF IsFork(rules, "Berlin") THEN WarmStorageReadCostEIP2929
                         ELSE IF IsFork(rules, "TangerineWhistle") THEN 700 ELSE 40
      [] op = "LOG1" -> 0
      [] op \in {"CALLDATACOPY", "MCOPY"} -> 3

BaseDynamicGas(rules, op) ==
    CASE op \in {"STOP", "ADD"} -> NoDynamic
      [] op = "EXP" ->
           makeCustomExpGasRule(ExpGas, IF IsFork(rules, "SpuriousDragon")
                                        THEN ExpByteEIP160 ELSE ExpByteFrontier)
      [] op = "KECCAK256" -> makeCustomKeccak256GasRule(Keccak256WordGas)
      [] op = "BALANCE" ->
           IF IsFork(rules, "Berlin") THEN [fn |-> "accountCheckEIP2929"] ELSE NoDynamic
      [] op = "SLOAD" ->
           IF IsFork(rules, "Berlin")
           THEN makeCustomSloadGasRule(ColdSloadCostEIP2929, WarmStorageReadCostEIP2929)
           ELSE NoDynamic
      [] op = "SSTORE" ->
           IF IsFork(rules, "Berlin")
           THEN makeCustomSstoreGasRule(
                  [ coldSloadCost  |-> ColdSloadCostEIP2929,
                    warmReadCost   |-> WarmStorageReadCostEIP2929,
                    setGas         |-> SstoreSetGasEIP2200,
                    resetGas       |-> SstoreResetGasEIP2200,
                    clearingRefund |-> IF IsFork(rules, "London") THEN 4800 ELSE 15000,
                    sentryGas      |-> SstoreSentryGasEIP2200 ])
           ELSE IF IsFork(rules, "Istanbul") THEN [fn |-> "sstoreEIP2200"]
           ELSE [fn |-> "sstoreLegacy"]
      [] op = "CALL" ->
           IF IsFork(rules, "Berlin")
           THEN makeCustomCallGasEIP2929Rule(
                  [ coldAccessCost |-> ColdAccountAccessCostEIP2929,
                    warmAccessCost |-> WarmStorageReadCostEIP2929,
                    valueXferCost  |-> CallValueTransferGas,
                    newAccountCost |-> CallNewAccountGas ])
           ELSE [fn |-> "call", valueXferCost |-> CallValueTransferGas,
                 newAccountCost |-> CallNewAccountGas]
      [] op = "STATICCALL" ->
           IF IsFork(rules, "Berlin")
           THEN makeCustomStaticCallGasEIP2929Rule(ColdAccountAccessCostEIP2929,
                                                   WarmStorageReadCostEIP2929)
           ELSE [fn |-> "staticCall"]
      [] op = "LOG1" -> makeCustomLogGasRule(1, LogGas, LogTopicGas, LogDataGas)
      [] op \in {"CALLDATACOPY", "MCOPY"} -> makeCustomCopyGasRule(2, CopyGas)

BasePresent(rules, op) ==
    CASE op = "STATICCALL" -> IsFork(rules, "Byzantium")
      [] op = "MCOPY" -> IsFork(rules, "Cancun")
      [] OTHER -> TRUE

GetBaseJumpTable(rules) ==
    [op \in TableOpcodes |->
        IF BasePresent(rules, op)
        THEN [present |-> TRUE, constantGas |-> BaseConstantGas(rules, op),
              dynamicGas |-> BaseDynamicGas(rules, op)]
        ELSE [present |-> FALSE, constantGas |-> 0, dynamicGas |-> NoDynamic]]

\* GasScheduleForRules
GasScheduleForRules(rules) ==
    LET jt == GetBaseJumpTable(rules)
        constants == [op \in { o \in TableOpcodes :
                                 /\ jt[o].present
                                 /\ (jt[o].constantGas > 0 \/ o = "STOP")
                                 /\ ~(o = "SLOAD" /\ IsFork(rules, "Berlin")) }
                        |-> jt[op].constantGas]
        dynamic == [k \in { "MEMORY", "COPY", "KECCAK256_WORD", "LOG", "LOG_TOPIC",
                            "LOG_DATA", "CALL_VALUE_XFER", "CALL_NEW_ACCOUNT",
                            "CREATE_BY_SELFDESTRUCT", "INIT_CODE_WORD", "EXP_BYTE" } |->
                      CASE k = "MEMORY" -> MemoryGas
                        [] k = "COPY" -> CopyGas
                        [] k = "KECCAK256_WORD" -> Keccak256WordGas
                        [] k = "LOG" -> LogGas
                        [] k = "LOG_TOPIC" -> LogTopicGas
                        [] k = "LOG_DATA" -> LogDataGas
                        [] k = "CALL_VALUE_XFER" -> CallValueTransferGas
                        [] k = "CALL_NEW_ACCOUNT" -> CallNewAccountGas
                        [] k = "CREATE_BY_SELFDESTRUCT" -> CreateBySelfdestructGas
                        [] k = "INIT_CODE_WORD" -> InitCodeWordGas
                        [] k = "EXP_BYTE" -> IF IsFork(rules, "SpuriousDragon")
                                             THEN ExpByteEIP160 ELSE ExpByteFrontier]
        berlin == IF IsFork(rules, "Berlin")
                  THEN [k \in {"SLOAD_COLD", "SLOAD_WARM", "CALL_COLD"} |->
                          CASE k = "SLOAD_COLD" -> ColdSloadCostEIP2929
                            [] k = "SLOAD_WARM" -> WarmStorageReadCostEIP2929
                            [] k = "CALL_COLD" -> ColdAccountAccessCostEIP2929]
                  ELSE EmptyMap
        istanbul == IF IsFork(rules, "Istanbul")
                    THEN [k \in {"SSTORE_SET", "SSTORE_RESET"} |->
                            IF k = "SSTORE_SET" THEN SstoreSetGasEIP2200
                            ELSE SstoreResetGasEIP2200]
                    ELSE EmptyMap
    IN MapSchedule(istanbul @@ berlin @@ dynamic @@ constants)

SetConstantGas(jt, op, gas) ==
    IF jt[op].present THEN [jt EXCEPT ![op].constantGas = gas] ELSE jt

SetDynamicGas(jt, op, rule) ==
    IF jt[op].present THEN [jt EXCEPT ![op].dynamicGas = rule] ELSE jt

\* The loop over schedule.Overrides that sets the constant gas of every key
\* that is an opcode name (datasource.go:423-431, jump_table.go:38-46).
ApplyConstantOverrides(jt, schedule) ==
    [op \in TableOpcodes |->
        IF has(schedule, op) /\ jt[op].present
        THEN [jt[op] EXCEPT !.constantGas = schedule.ov[op]]
        ELSE jt[op]]

\* applyOverrides (datasource.go:418-604)
applyOverrides(jt0, schedule) ==
    LET jt1 == ApplyConstantOverrides(jt0, schedule)
        jt2 == IF has(schedule, "SLOAD_COLD") \/ has(schedule, "SLOAD_WARM")
               THEN SetDynamicGas(jt1, "SLOAD",
                      makeCustomSloadGasRule(
                        get(schedule, "SLOAD_COLD", ColdSloadCostEIP2929),
                        get(schedule, "SLOAD_WARM", WarmStorageReadCostEIP2929)))
               ELSE jt1
        jt3 == IF SstoreInstalled(schedule)
               THEN SetDynamicGas(jt2, "SSTORE",
                      makeCustomSstoreGasRule(SstoreGasParams(schedule)))
               ELSE jt2
        jt4 == IF has(schedule, "EXP") \/ has(schedule, "EXP_BYTE")
               THEN SetDynamicGas(jt3, "EXP",
                      makeCustomExpGasRule(get(schedule, "EXP", ExpGas),
                                           get(schedule, "EXP_BYTE", ExpByteEIP160)))
               ELSE jt3
        jt5 == IF has(schedule, "KECCAK256")
               THEN SetConstantGas(jt4, "KECCAK256", get(schedule, "KECCAK256", Keccak256Gas))
               ELSE jt4
        jt6 == IF has(schedule, "KECCAK256_WORD")
               THEN SetDynamicGas(jt5, "KECCAK256",
                      makeCustomKeccak256GasRule(
                        get(schedule, "KECCAK256_WORD", Keccak256WordGas)))
               ELSE jt5
        jt7 == IF has(schedule, "LOG") \/ has(schedule, "LOG_TOPIC") \/ has(schedule, "LOG_DATA")
               THEN SetDynamicGas(jt6, "LOG1",
                      makeCustomLogGasRule(1, get(schedule, "LOG", LogGas),
                                           get(schedule, "LOG_TOPIC", LogTopicGas),
                                           get(schedule, "LOG_DATA", LogDataGas)))
               ELSE jt6
        copyRule == makeCustomCopyGasRule(2, get(schedule, "COPY", CopyGas))
        jt8 == IF has(schedule, "COPY")
               THEN SetDynamicGas(SetDynamicGas(jt7, "CALLDATACOPY", copyRule),
                                  "MCOPY", copyRule)
               ELSE jt7
        callParams ==
            [ coldAccessCost |-> get(schedule, "CALL_COLD", ColdAccountAccessCostEIP2929),
              warmAccessCost |-> get(schedule, "CALL_WARM", WarmStorageReadCostEIP2929),
              valueXferCost  |-> get(schedule, "CALL_VALUE_XFER", CallValueTransferGas),
              newAccountCost |-> get(schedule, "CALL_NEW_ACCOUNT", CallNewAccountGas) ]
        jt9 == IF \/ has(schedule, "CALL_COLD") \/ has(schedule, "CALL_WARM")
                  \/ has(schedule, "CALL_VALUE_XFER") \/ has(schedule, "CALL_NEW_ACCOUNT")
               THEN SetDynamicGas(
                      SetConstantGas(
                        SetDynamicGas(
                          SetConstantGas(jt8, "CALL", callParams.warmAccessCost),
                          "CALL", makeCustomCallGasEIP2929Rule(callParams)),
                        "STATICCALL", callParams.warmAccessCost),
                      "STATICCALL",
                      makeCustomStaticCallGasEIP2929Rule(callParams.coldAccessCost,
                                                         callParams.warmAccessCost))
               ELSE jt8
        jt10 == IF has(schedule, "BALANCE")
                THEN SetConstantGas(jt9, "BALANCE", get(schedule, "BALANCE", 700))
                ELSE jt9
    IN jt10

\* BuildCustomJumpTable of datasource.go: constant and dynamic gas.
BuildCustomJumpTableDynamic(rules, schedule) ==
    IF schedule.kind = "nilptr" \/ ~HasOverrides(schedule) THEN GetBaseJumpTable(rules)
    ELSE applyOverrides(GetBaseJumpTable(rules), schedule)

\* BuildCustomJumpTable of jump_table.go: constant gas only.
BuildCustomJumpTableConstant(rules, schedule) ==
    IF schedule.kind = "nilptr" \/ ~HasOverrides(schedule) THEN GetBaseJumpTable(rules)
    ELSE ApplyConstantOverrides(GetBaseJumpTable(rules), schedule)

EditKeys ==
    {"ADD", "SLOAD_COLD", "SSTORE_RESET", "CALL_WARM", "KECCAK256", "EXP_BYTE", "NOT_A_KEY"}

EditValues == {1, 5000, 7000, MaxU64}

TableInit ==
    /\ jtRules \in RuleSets
    /\ jtSchedule = NilSchedule
    /\ jtEdits = 0
    /\ jtBuilt = "base"
    /\ jtTable = GetBaseJumpTable(jtRules)

\* The caller asks for the defaults of the fork (GetGasSchedule) to make a new
\* request from them: no table has been built for it yet.
DefaultsFor ==
    /\ jtSchedule' = GasScheduleForRules(jtRules)
    /\ jtEdits' = 0
    /\ jtBuilt' = "base"
    /\ jtTable' = GetBaseJumpTable(jtRules)
    /\ UNCHANGED jtRules

\* The caller sets one key of the schedule of the request.
OverrideKey ==
    /\ jtEdits < MaxEdits
    /\ \E key \in EditKeys, value \in EditValues :
         jtSchedule' = MapSchedule([k \in {key} |-> value] @@ jtSchedule.ov)
    /\ jtEdits' = jtEdits + 1
    /\ jtBuilt' = "base"
    /\ jtTable' = GetBaseJumpTable(jtRules)
    /\ UNCHANGED jtRules

BuildDynamic ==
    /\ jtTable' = BuildCustomJumpTableDynamic(jtRules, jtSchedule)
    /\ jtBuilt' = "datasource"
    /\ UNCHANGED <<jtRules, jtSchedule, jtEdits>>

BuildConstant ==
    /\ jtTable' = BuildCustomJumpTableConstant(jtRules, jtSchedule)
    /\ jtBuilt' = "jump_table"
    /\ UNCHANGED <<jtRules, jtSchedule, jtEdits>>

\* C11 (as claimed): a table built from the fork's own default schedule has,
\* for every opcode and every fork, the constant gas and the dynamic gas rule
\* of the fork's baseline table.
C11_DefaultsRoundTrip ==
    (jtBuilt # "base" /\ jtSchedule = GasScheduleForRules(jtRules))
        => \A op \in TableOpcodes :
              /\ jtTable[op].constantGas = GetBaseJumpTable(jtRules)[op].constantGas
              /\ jtTable[op].dynamicGas = GetBaseJumpTable(jtRules)[op].dynamicGas

SafeAdd(a, b) == [val |-> AddU64(a, b), overflow |-> a + b > MaxU64]
SafeMul(a, b) == [val |-> MulU64(a, b), overflow |-> a * b > MaxU64]

\* The function makeCustomExpGas returns, applied to an exponent of
\* expByteLen bytes.
makeCustomExpGas(baseGas, byteGas, expByteLen) ==
    LET gas == MulU64(expByteLen, byteGas)
        sum == SafeAdd(gas, baseGas)
    IN IF sum.overflow THEN [gas |-> 0, err |-> ErrGasUintOverflow]
       ELSE [gas |-> sum.val, err |-> ErrNone]

\* The function makeCustomLogGas returns, applied to a log of requestedSize
\* bytes; memory is what memoryGasCost returned for the expansion.
makeCustomLogGas(numTopics, baseGas, topicGas, dataGas, requestedSize, memory) ==
    LET s1 == SafeAdd(memory.gas, baseGas)
        s2 == SafeAdd(s1.val, MulU64(numTopics, topicGas))
        m  == SafeMul(requestedSize, dataGas)
        s3 == SafeAdd(s2.val, m.val)
    IN IF memory.err # ErrNone THEN [gas |-> 0, err |-> memory.err]
       ELSE IF s1.overflow \/ s2.overflow \/ m.overflow \/ s3.overflow
       THEN [gas |-> 0, err |-> ErrGasUintOverflow]
       ELSE [gas |-> s3.val, err |-> ErrNone]

\* EXP is executed under a table built from the schedule (datasource.go:470-476).
ExpGasCall ==
    \E expByteLen \in {0, 1, 2, 4} :
        /\ gasCall = NoGasCall
        /\ has(vmSchedule, "EXP") \/ has(vmSchedule, "EXP_BYTE")
        /\ gasCall' = [kind |-> "ExpGas", expByteLen |-> expByteLen,
                       baseGas |-> get(vmSchedule, "EXP", ExpGas),
                       byteGas |-> get(vmSchedule, "EXP_BYTE", ExpByteEIP160),
                       result |-> makeCustomExpGas(get(vmSchedule, "EXP", ExpGas),
                                                   get(vmSchedule, "EXP_BYTE", ExpByteEIP160),
                                                   expByteLen)]
        /\ UNCHANGED vmSchedule

\* LOG0..LOG4 is executed under a table built from the schedule
\* (datasource.go:493-513).
LogGasCall ==
    \E numTopics \in 0..4, requestedSize \in {0, 1, 2, 4},
       memory \in { [gas |-> 0, err |-> ErrNone], [gas |-> 9, err |-> ErrNone],
                    [gas |-> 0, err |-> ErrGasUintOverflow] } :
        /\ gasCall = NoGasCall
        /\ has(vmSchedule, "LOG") \/ has(vmSchedule, "LOG_TOPIC") \/ has(vmSchedule, "LOG_DATA")
        /\ gasCall' = [kind |-> "LogGas", numTopics |-> numTopics,
                       requestedSize |-> requestedSize, memory |-> memory,
                       baseGas |-> get(vmSchedule, "LOG", LogGas),
                       topicGas |-> get(vmSchedule, "LOG_TOPIC", LogTopicGas),
                       dataGas |-> get(vmSchedule, "LOG_DATA", LogDataGas),
                       result |-> makeCustomLogGas(numTopics,
                                                   get(vmSchedule, "LOG", LogGas),
                                                   get(vmSchedule, "LOG_TOPIC", LogTopicGas),
                                                   get(vmSchedule, "LOG_DATA", LogDataGas),
                                                   requestedSize, memory)]
        /\ UNCHANGED vmSchedule

\* C18 (as claimed): every patched gas function returns the exact sum of
\* products of its operands or signals a gas overflow, and never a value
\* wrapped modulo 2^64: EXP, LOG0..LOG4 and the BLAKE2F precompile formula.
C18_ExactOrOverflowError ==
    /\ gasCall.kind = "ExpGas" =>
          \/ gasCall.result.err = ErrGasUintOverflow
          \/ /\ gasCall.result.err = ErrNone
             /\ gasCall.result.gas = gasCall.baseGas + gasCall.expByteLen * gasCall.byteGas
    /\ gasCall.kind = "LogGas" =>
          \/ gasCall.result.err = ErrGasUintOverflow
          \/ /\ gasCall.result.err = ErrNone
             /\ gasCall.result.gas =
                   gasCall.memory.gas + gasCall.baseGas
                     + gasCall.numTopics * gasCall.topicGas
                     + gasCall.requestedSize * gasCall.dataGas
    /\ ( /\ gasCall.kind = "precompile"
         /\ gasCall.name = "BLAKE2F"
         /\ vmSchedule.kind # "nilptr"
         /\ gasCall.input.len = Blake2fInputLen ) =>
          gasCall.result = get(vmSchedule, "PC_BLAKE2F_BASE", 0)
                             + get(vmSchedule, "PC_BLAKE2F_PER_ROUND", 1) * gasCall.input.rounds

\* ------------------------------------------------------------------------
\* Intrinsic gas under a schedule (intrinsic_gas_override.go)
\* ------------------------------------------------------------------------
TxGasContractCreation == 53000
TxAAGas == 15000
TxDataNonZeroGasFrontier == 68
TxDataNonZeroGasEIP2028 == 16
TxDataZeroGas == 4
TxAccessListAddressGas == 2400
PerEmptyAccountCost == 25000
TxTotalCostFloorPerToken == 10

\* Mutant of intrinsicToWordSize: the word count is rounded down.
intrinsicToWordSizeFloor(size) == size \div 32

intrinsicToWordSize(size) ==
    IF size > MaxU64 - 31 THEN (MaxU64 \div 32) + 1 ELSE (size + 31) \div 32

\* CalcCustomIntrinsicGas: [gas, floorGas7623]; data is the sequence of the
\* transaction's bytes.
CalcCustomIntrinsicGas(schedule, data, accessListLen, storageKeysLen, isContractCreation, isEIP2, isEIP2028, isEIP3860, isEIP7623, isAATxn, authorizationsLen) ==
    LET zero    == [gas |-> 0, floorGas7623 |-> 0]
        gas0    == IF isContractCreation /\ isEIP2
                   THEN GetOr(schedule, "TX_CREATE_BASE", TxGasContractCreation)
                   ELSE IF isAATxn THEN TxAAGas
                   ELSE GetOr(schedule, "TX_BASE", TxGas)
        floor0  == GetOr(schedule, "TX_BASE", TxGas)
        dataLen == Len(data)
        nz      == Cardinality({i \in 1..dataLen : data[i] # 0})
        nonZeroGas == IF isEIP2028
                      THEN GetOr(schedule, "TX_DATA_NONZERO", TxDataNonZeroGasEIP2028)
                      ELSE GetOr(schedule, "TX_DATA_NONZERO", TxDataNonZeroGasFrontier)
        p1 == SafeMul(nz, nonZeroGas)
        g1 == SafeAdd(gas0, p1.val)
        p2 == SafeMul(dataLen - nz, GetOr(schedule, "TX_DATA_ZERO", TxDataZeroGas))
        g2 == SafeAdd(g1.val, p2.val)
        initCode == isContractCreation /\ isEIP3860
        p3 == SafeMul(intrinsicToWordSize(dataLen),
                      GetOr(schedule, "TX_INIT_CODE_WORD", InitCodeWordGas))
        g3 == IF initCode THEN SafeAdd(g2.val, p3.val) ELSE [g2 EXCEPT !.overflow = FALSE]
        p4 == SafeMul(dataLen + 3 * nz,
                      GetOr(schedule, "TX_FLOOR_PER_TOKEN", TxTotalCostFloorPerToken))
        f4 == IF isEIP7623 THEN SafeAdd(floor0, p4.val) ELSE [val |-> floor0, overflow |-> FALSE]
        dataFails == \/ p1.overflow \/ g1.overflow \/ p2.overflow \/ g2.overflow
                     \/ initCode /\ (p3.overflow \/ g3.overflow)
                     \/ isEIP7623 /\ (p4.overflow \/ f4.overflow)
        gasD   == IF dataLen > 0 THEN g3.val ELSE gas0
        floorD == IF dataLen > 0 THEN f4.val ELSE floor0
        p5 == SafeMul(accessListLen,
                      GetOr(schedule, "TX_ACCESS_LIST_ADDR", TxAccessListAddressGas))
        g5 == SafeAdd(gasD, p5.val)
        p6 == SafeMul(storageKeysLen,
                      GetOr(schedule, "TX_ACCESS_LIST_KEY", TxAccessListStorageKeyGas))
        g6 == SafeAdd(g5.val, p6.val)
        listFails == p5.overflow \/ g5.overflow \/ p6.overflow \/ g6.overflow
        gasL == IF accessListLen > 0 THEN g6.val ELSE gasD
        p7 == SafeMul(authorizationsLen, GetOr(schedule, "TX_AUTH_COST", PerEmptyAccountCost))
        g7 == SafeAdd(gasL, p7.val)
    IN IF dataLen > 0 /\ dataFails THEN zero
       ELSE IF accessListLen > 0 /\ listFails THEN zero
       ELSE IF p7.overflow \/ g7.overflow THEN zero
       ELSE [gas |-> g7.val, floorGas7623 |-> floorD]

\* Transaction data of n bytes, the first k of them non-zero.
TxData(n, k) == [i \in 1..n |-> IF i <= k THEN 7 ELSE 0]

\* The fork of the block as the flags isEIP2, isEIP2028, isEIP3860, isEIP7623
\* (Homestead, Istanbul, Shanghai, Prague).
IntrinsicForks ==
    { <<FALSE, FALSE, FALSE, FALSE>>, <<TRUE, FALSE, FALSE, FALSE>>,
      <<TRUE, TRUE, FALSE, FALSE>>, <<TRUE, TRUE, TRUE, FALSE>>,
      <<TRUE, TRUE, TRUE, TRUE>> }

\* The intrinsic gas of a transaction is recalculated under a schedule with
\* intrinsic overrides.
IntrinsicGasCall ==
    \E data \in {TxData(0, 0), TxData(3, 2), TxData(33, 4), TxData(33, 33)},
       list \in {<<0, 0>>, <<2, 3>>}, isContractCreation \in BOOLEAN,
       fork \in IntrinsicForks, isAATxn \in BOOLEAN, authorizationsLen \in {0, 1} :
        /\ gasCall = NoGasCall
        /\ HasIntrinsicOverrides(vmSchedule)
        /\ isAATxn => fork[4]
        /\ gasCall' = [kind |-> "intrinsic", data |-> data, accessListLen |-> list[1],
                       storageKeysLen |-> list[2],
                       isContractCreation |-> isContractCreation, fork |-> fork,
                       isAATxn |-> isAATxn, authorizationsLen |-> authorizationsLen,
                       result |-> CalcCustomIntrinsicGas(vmSchedule, data, list[1], list[2],
                                      isContractCreation, fork[1], fork[2], fork[3],
                                      fork[4], isAATxn, authorizationsLen)]
        /\ UNCHANGED vmSchedule

\* The sum the intrinsic gas is claimed to be, on the integers, from the base
\* given, and the EIP-7623 floor.
IntrinsicSum(base) ==
    LET c   == gasCall
        n   == Len(c.data)
        nz  == Cardinality({i \in 1..n : c.data[i] # 0})
        nzG == GetOr(vmSchedule, "TX_DATA_NONZERO",
                     IF c.fork[2] THEN TxDataNonZeroGasEIP2028
                     ELSE TxDataNonZeroGasFrontier)
    IN base + nz * nzG + (n - nz) * GetOr(vmSchedule, "TX_DATA_ZERO", TxDataZeroGas)
       + (IF c.isContractCreation /\ c.fork[3]
          THEN ((n + 31) \div 32) * GetOr(vmSchedule, "TX_INIT_CODE_WORD", InitCodeWordGas)
          ELSE 0)
       + c.accessListLen * GetOr(vmSchedule, "TX_ACCESS_LIST_ADDR", TxAccessListAddressGas)
       + c.storageKeysLen * GetOr(vmSchedule, "TX_ACCESS_LIST_KEY", TxAccessListStorageKeyGas)
       + c.authorizationsLen * GetOr(vmSchedule, "TX_AUTH_COST", PerEmptyAccountCost)

IntrinsicFloor ==
    LET n  == Len(gasCall.data)
        nz == Cardinality({i \in 1..n : gasCall.data[i] # 0})
    IN GetOr(vmSchedule, "TX_BASE", TxGas)
       + (IF gasCall.fork[4]
          THEN (n + 3 * nz) * GetOr(vmSchedule, "TX_FLOOR_PER_TOKEN", TxTotalCostFloorPerToken)
          ELSE 0)

\* C27: CalcCustomIntrinsicGas returns base + nonZeroBytes x TX_DATA_NONZERO
\* + zeroBytes x TX_DATA_ZERO + (creation under EIP-3860) ceil(dataLen/32) x
\* TX_INIT_CODE_WORD + accessListLen x TX_ACCESS_LIST_ADDR + storageKeysLen x
\* TX_ACCESS_LIST_KEY + authCount x TX_AUTH_COST, every parameter read from
\* the schedule or its fork default, where base is TX_CREATE_BASE for a
\* creation under EIP-2, the fixed account-abstraction base for an
\* account-abstraction transaction that is not such a creation, and TX_BASE
\* otherwise; when that sum or the EIP-7623 floor exceeds uint64 it returns
\* gas = 0 and floor = 0.
C27_IntrinsicGasFormula ==
    gasCall.kind = "intrinsic" =>
        LET c    == gasCall
            base == IF c.isContractCreation /\ c.fork[1]
                    THEN GetOr(vmSchedule, "TX_CREATE_BASE", TxGasContractCreation)
                    ELSE IF c.isAATxn THEN TxAAGas
                    ELSE GetOr(vmSchedule, "TX_BASE", TxGas)
            sum  == IntrinsicSum(base)
        IN IF sum > MaxU64 \/ IntrinsicFloor > MaxU64
           THEN c.result = [gas |-> 0, floorGas7623 |-> 0]
           ELSE c.result = [gas |-> sum, floorGas7623 |-> IntrinsicFloor]

\* A creation under EIP-3860 with 33 bytes of data, an access list and an
\* authorization, under a schedule that prices the init-code word: two words
\* are charged.
C27_Witness ==
    /\ gasCall.kind = "intrinsic"
    /\ KeyPresent(vmSchedule, "TX_INIT_CODE_WORD")
    /\ gasCall.isContractCreation
    /\ gasCall.fork[3]
    /\ Len(gasCall.data) = 33
    /\ gasCall.accessListLen = 2
    /\ gasCall.authorizationsLen = 1
    /\ gasCall.result.gas > 0
    /\ gasCall.result.gas =
          IntrinsicSum(GetOr(vmSchedule, "TX_CREATE_BASE", TxGasContractCreation))

\* C27 (as claimed): the same with base TX_CREATE_BASE for every creation and
\* TX_BASE for every other transaction.
C27_BaseByCreationOnly ==
    gasCall.kind = "intrinsic" =>
        LET c    == gasCall
            base == IF c.isContractCreation
                    THEN GetOr(vmSchedule, "TX_CREATE_BASE", TxGasContractCreation)
                    ELSE GetOr(vmSchedule, "TX_BASE", TxGas)
            sum  == IntrinsicSum(base)
        IN IF sum > MaxU64 \/ IntrinsicFloor > MaxU64
           THEN c.result = [gas |-> 0, floorGas7623 |-> 0]
           ELSE c.result = [gas |-> sum, floorGas7623 |-> IntrinsicFloor]

\* ------------------------------------------------------------------------
\* CALL family gas functions (datasource.go:883-1156)
\* ------------------------------------------------------------------------
\* callGasParams as applyOverrides fills it (datasource.go:551-556)
CallGasParams(schedule) ==
    [ coldAccessCost |-> get(schedule, "CALL_COLD", ColdAccountAccessCostEIP2929),
      warmAccessCost |-> get(schedule, "CALL_WARM", WarmStorageReadCostEIP2929),
      valueXferCost  |-> get(schedule, "CALL_VALUE_XFER", CallValueTransferGas),
      newAccountCost |-> get(schedule, "CALL_NEW_ACCOUNT", CallNewAccountGas) ]

\* Schedules with one of the four CALL keys: the fork's cold cost, a warm cost
\* above the cold cost, and new-account and value-transfer costs at the top of
\* the word.
CallSchedules ==
    { MapSchedule([k \in {"CALL_COLD"} |-> ColdAccountAccessCostEIP2929]),
      MapSchedule([k \in {"CALL_WARM"} |-> 3000]),
      MapSchedule([k \in {"CALL_NEW_ACCOUNT"} |-> MaxU64]),
      MapSchedule([k \in {"CALL_VALUE_XFER"} |-> MaxU64]) }

\* What a CALL-family gas function reads besides the gas left and the access
\* list: the opcode, the target Stack.Back(1), whether Stack.Back(2) is
\* non-zero, whether the target is empty, the result of memoryGasCost and the
\* requested gas Stack.Back(0).  DELEGATECALL and STATICCALL read neither the
\* value nor the emptiness of the target; CALLCODE does not read the latter.
CallInputs ==
    { [op |-> o[1], addr |-> addr, value |-> o[2], empty |-> o[3],
       memoryGas |-> m, callCost |-> c] :
        o \in { <<"CALL", FALSE, FALSE>>, <<"CALL", TRUE, FALSE>>, <<"CALL", TRUE, TRUE>>,
                <<"CALLCODE", FALSE, FALSE>>, <<"CALLCODE", TRUE, FALSE>>,
                <<"DELEGATECALL", FALSE, FALSE>>, <<"STATICCALL", FALSE, FALSE>> },
        addr \in {"A", "B"},
        m \in {0, 9},
        c \in { [fits |-> TRUE, val |-> 1000], [fits |-> FALSE, val |-> 5] } }

\* gasCallInner on a chain with IsSpuriousDragon and IsTangerineWhistle
gasCallInner(p, hasValue, in, scopeGas) ==
    LET transfersValue == hasValue /\ in.value
        gas1 == IF transfersValue /\ in.empty THEN p.newAccountCost ELSE 0
        gas2 == IF transfersValue THEN AddU64(gas1, p.valueXferCost) ELSE gas1
        gas3 == SafeAdd(gas2, in.memoryGas)
        temp == callGas(TRUE, scopeGas, gas3.val, in.callCost)
        gas4 == SafeAdd(gas3.val, temp.gas)
    IN IF gas3.overflow THEN [gas |-> 0, err |-> ErrGasUintOverflow, callGasTemp |-> 0]
       ELSE IF temp.err # ErrNone THEN [gas |-> 0, err |-> temp.err, callGasTemp |-> 0]
       ELSE IF gas4.overflow
       THEN [gas |-> 0, err |-> ErrGasUintOverflow, callGasTemp |-> temp.gas]
       ELSE [gas |-> gas4.val, err |-> ErrNone, callGasTemp |-> temp.gas]

gasCallCodeInner(p, in, scopeGas) ==
    LET gas2 == IF in.value THEN p.valueXferCost ELSE 0
        gas3 == SafeAdd(gas2, in.memoryGas)
        temp == callGas(TRUE, scopeGas, gas3.val, in.callCost)
        gas4 == SafeAdd(gas3.val, temp.gas)
    IN IF gas3.overflow THEN [gas |-> 0, err |-> ErrGasUintOverflow, callGasTemp |-> 0]
       ELSE IF temp.err # ErrNone THEN [gas |-> 0, err |-> temp.err, callGasTemp |-> 0]
       ELSE IF gas4.overflow
       THEN [gas |-> 0, err |-> ErrGasUintOverflow, callGasTemp |-> temp.gas]
       ELSE [gas |-> gas4.val, err |-> ErrNone, callGasTemp |-> temp.gas]

gasDelegateCallInner(in, scopeGas) ==
    LET temp == callGas(TRUE, scopeGas, in.memoryGas, in.callCost)
        gas4 == SafeAdd(in.memoryGas, temp.gas)
    IN IF temp.err # ErrNone THEN [gas |-> 0, err |-> temp.err, callGasTemp |-> 0]
       ELSE IF gas4.overflow
       THEN [gas |-> 0, err |-> ErrGasUintOverflow, callGasTemp |-> temp.gas]
       ELSE [gas |-> gas4.val, err |-> ErrNone, callGasTemp |-> temp.gas]

gasStaticCallInner(in, scopeGas) ==
    LET temp == callGas(TRUE, scopeGas, in.memoryGas, in.callCost)
        gas4 == SafeAdd(in.memoryGas, temp.gas)
    IN IF temp.err # ErrNone THEN [gas |-> 0, err |-> temp.err, callGasTemp |-> 0]
       ELSE IF gas4.overflow
       THEN [gas |-> 0, err |-> ErrGasUintOverflow, callGasTemp |-> temp.gas]
       ELSE [gas |-> gas4.val, err |-> ErrNone, callGasTemp |-> temp.gas]

\* The four wrappers.  addrMod is what AddAddressToAccessList returns: the
\* address was not in the access list and has been added.  The result carries
\* the gas and the error returned, addrMod, and the gas handed to the inner
\* calculator (innerGas, -1 when it is not called).
makeCustomCallGasEIP2929(p, hasValue, in, scopeGas, addrMod) ==
    LET coldCost == safeSub(p.coldAccessCost, p.warmAccessCost)
        scope    == IF addrMod THEN scopeGas - coldCost ELSE scopeGas
        r        == gasCallInner(p, hasValue, in, scope)
    IN IF addrMod /\ scopeGas < coldCost
       THEN [gas |-> 0, err |-> ErrOutOfGas, addrMod |-> addrMod, innerGas |-> -1,
             callGasTemp |-> 0]
       ELSE IF ~addrMod \/ r.err # ErrNone
       THEN r @@ [addrMod |-> addrMod, innerGas |-> scope]
       ELSE [r EXCEPT !.gas = AddU64(r.gas, coldCost)] @@
            [addrMod |-> addrMod, innerGas |-> scope]

makeCustomCallCodeGasEIP2929(p, in, scopeGas, addrMod) ==
    LET coldCost == safeSub(p.coldAccessCost, p.warmAccessCost)
        scope    == IF addrMod THEN scopeGas - coldCost ELSE scopeGas
        r        == gasCallCodeInner(p, in, scope)
    IN IF addrMod /\ scopeGas < coldCost
       THEN [gas |-> 0, err |-> ErrOutOfGas, addrMod |-> addrMod, innerGas |-> -1,
             callGasTemp |-> 0]
       ELSE IF ~addrMod \/ r.err # ErrNone
       THEN r @@ [addrMod |-> addrMod, innerGas |-> scope]
       ELSE [r EXCEPT !.gas = AddU64(r.gas, coldCost)] @@
            [addrMod |-> addrMod, innerGas |-> scope]

makeCustomDelegateCallGasEIP2929(coldAccessCost, warmAccessCost, in, scopeGas, addrMod) ==
    LET coldCost == safeSub(coldAccessCost, warmAccessCost)
        scope    == IF addrMod THEN scopeGas - coldCost ELSE scopeGas
        r        == gasDelegateCallInner(in, scope)
    IN IF addrMod /\ scopeGas < coldCost
       THEN [gas |-> 0, err |-> ErrOutOfGas, addrMod |-> addrMod, innerGas |-> -1,
             callGasTemp |-> 0]
       ELSE IF ~addrMod \/ r.err # ErrNone
       THEN r @@ [addrMod |-> addrMod, innerGas |-> scope]
       ELSE [r EXCEPT !.gas = AddU64(r.gas, coldCost)] @@
            [addrMod |-> addrMod, innerGas |-> scope]

makeCustomStaticCallGasEIP2929(coldAccessCost, warmAccessCost, in, scopeGas, addrMod) ==
    LET coldCost == safeSub(coldAccessCost, warmAccessCost)
        scope    == IF addrMod THEN scopeGas - coldCost ELSE scopeGas
        r        == gasStaticCallInner(in, scope)
    IN IF addrMod /\ scopeGas < coldCost
       THEN [gas |-> 0, err |-> ErrOutOfGas, addrMod |-> addrMod, innerGas |-> -1,
             callGasTemp |-> 0]
       ELSE IF ~addrMod \/ r.err # ErrNone
       THEN r @@ [addrMod |-> addrMod, innerGas |-> scope]
       ELSE [r EXCEPT !.gas = AddU64(r.gas, coldCost)] @@
            [addrMod |-> addrMod, innerGas |-> scope]

NoCall == [op |-> "none"]

CallInit ==
    /\ \E schedule \in CallSchedules : callP = CallGasParams(schedule)
    /\ accessList = {}
    /\ calledAddrs = {}
    /\ callCount = 0
    /\ lastCall = NoCall

\* One CALL-family opcode of the transaction: the dynamic gas function of the
\* opcode runs on the access list.  When it returns an error or more gas than
\* the frame has left, the frame ends and the address it has added to the
\* access list is rolled back with the frame's other changes.
Call ==
    /\ callCount < MaxCalls
    /\ callCount' = callCount + 1
    /\ \E in \in CallInputs, scopeGas \in {2499, 2500, 100000} :
         LET addrMod == in.addr \notin accessList
             r == CASE in.op = "CALL" ->
                         makeCustomCallGasEIP2929(callP, TRUE, in, scopeGas, addrMod)
                    [] in.op = "CALLCODE" ->
                         makeCustomCallCodeGasEIP2929(callP, in, scopeGas, addrMod)
                    [] in.op = "DELEGATECALL" ->
                         makeCustomDelegateCallGasEIP2929(callP.coldAccessCost,
                             callP.warmAccessCost, in, scopeGas, addrMod)
                    [] in.op = "STATICCALL" ->
                         makeCustomStaticCallGasEIP2929(callP.coldAccessCost,
                             callP.warmAccessCost, in, scopeGas, addrMod)
             failed == r.err # ErrNone \/ scopeGas < r.gas
         IN /\ lastCall' = r @@ in @@ [scopeGas |-> scopeGas, seen |-> in.addr \in calledAddrs,
                                       failed |-> failed]
            /\ accessList' = IF failed THEN accessList ELSE accessList \cup {in.addr}
            /\ calledAddrs' = calledAddrs \cup {in.addr}
    /\ UNCHANGED callP

\* The inner calculator of the opcode of the last call, on the gas given.
InnerOf(c, scopeGas) ==
    CASE c.op = "CALL" -> gasCallInner(callP, TRUE, c, scopeGas)
      [] c.op = "CALLCODE" -> gasCallCodeInner(callP, c, scopeGas)
      [] c.op = "DELEGATECALL" -> gasDelegateCallInner(c, scopeGas)
      [] c.op = "STATICCALL" -> gasStaticCallInner(c, scopeGas)

\* C22 (as claimed): with cold_surcharge the saturating difference of CALL_COLD
\* and CALL_WARM, a call to an address not in the access list fails out of gas
\* when the gas left is below the surcharge and otherwise reports the inner
\* calculator's cost on the gas left less the surcharge, plus the surcharge; a
\* call to an address in the access list reports the inner calculator's cost on
\* the unchanged gas left; and a second call to the same address in the
\* transaction is warm.
C22_ColdSurchargeWrapsInner ==
    lastCall.op # "none" =>
        LET s     == SatDiff(callP.coldAccessCost, callP.warmAccessCost)
            inner == InnerOf(lastCall, IF lastCall.addrMod THEN lastCall.scopeGas - s
                                       ELSE lastCall.scopeGas)
        IN /\ lastCall.seen => ~lastCall.addrMod
           /\ (lastCall.addrMod /\ lastCall.scopeGas < s) =>
                 lastCall.err = ErrOutOfGas
           /\ (lastCall.addrMod /\ lastCall.scopeGas >= s /\ inner.err = ErrNone) =>
                 /\ lastCall.err = ErrNone
                 /\ lastCall.innerGas = lastCall.scopeGas - s
                 /\ lastCall.callGasTemp = inner.callGasTemp
                 /\ lastCall.gas = inner.gas + s
           /\ (~lastCall.addrMod /\ inner.err = ErrNone) =>
                 /\ lastCall.err = ErrNone
                 /\ lastCall.innerGas = lastCall.scopeGas
                 /\ lastCall.gas = inner.gas

\* ------------------------------------------------------------------------
\* SimulationTracer (the summary tracer) and the hooks the EVM calls on it
\* ------------------------------------------------------------------------
\* opcodeStrings[opcode] (tracer.go:38-44) on the opcodes of the model:
\* ADD, CREATE, CALL, STATICCALL.
opcodeStrings ==
    [b \in {1, 240, 241, 250} |->
        CASE b = 1 -> "ADD" [] b = 240 -> "CREATE" [] b = 241 -> "CALL"
          [] b = 250 -> "STATICCALL"]

\* m[k] of a Go map: the zero value when the key is absent.
MapGet(m, k) == IF k \in DOMAIN m THEN m[k] ELSE 0

\* Mutant of MapAdd: m[k] = v
MapSet(m, k, v) == [x \in DOMAIN m \cup {k} |-> IF x = k THEN v ELSE m[x]]

\* m[k] += v
MapAdd(m, k, v) == [x \in DOMAIN m \cup {k} |-> IF x = k THEN AddU64(MapGet(m, k), v)
                                                 ELSE m[x]]

\* to.String() of a target: a string of n characters, as the sequence of
\* them; two targets that differ in the last of 42 characters and one whose
\* string is short.
AddrString(n, last) == [i \in 1..n |-> IF i = n THEN last ELSE i]

\* Mutant of TruncateAddr: the whole string is kept.
TruncateAddrWhole(addrStr) == addrStr

\* addrStr[:20] when len(addrStr) > 20
TruncateAddr(addrStr) == IF Len(addrStr) > 20 THEN SubSeq(addrStr, 1, 20) ELSE addrStr

SimTargets == { AddrString(42, 97), AddrString(5, 97) }

\* The gas handed to a frame.
SimChildGas == {100}

\* <<opcode, cost, failed>> of an OnOpcode call: ADD, and CALL and STATICCALL
\* with a cost above, equal to and below the child's gas, and of 0.
SimOpcodeInputs ==
    { <<1, 3, FALSE>>, <<1, 3, TRUE>>,
      <<241, 700, FALSE>>, <<241, 700, TRUE>>, <<241, 100, FALSE>>, <<241, 0, FALSE>>,
      <<250, 700, FALSE>>, <<250, 3, TRUE>> }

NoHook == [kind |-> "none"]

\* NewSimulationTracer
SimInit ==
    /\ gasUsed = EmptyMap
    /\ opcodeCounts = EmptyMap
    /\ totalGasUsed = 0
    /\ callStack = <<>>
    /\ callErrors = <<>>
    /\ pendingCallCost = 0
    /\ pendingCallDepth = 0
    /\ pendingCallType = ""
    /\ simPhase = "new"
    /\ evmFrames = <<>>
    /\ evmNext = "op"
    /\ simHook = NoHook
    /\ hookCount = 0

SimOnTxStart ==
    /\ simPhase = "new"
    /\ simPhase' = "tx"
    /\ totalGasUsed' = 0
    /\ simHook' = [kind |-> "OnTxStart"]
    /\ hookCount' = hookCount + 1
    /\ UNCHANGED <<gasUsed, opcodeCounts, callStack, callErrors, pendingCallCost,
                   pendingCallDepth, pendingCallType, evmFrames, evmNext>>

\* Mutant of SimOnTxEnd: a pending CALL is dropped.
SimOnTxEndNoFlush ==
    /\ simPhase \in {"tx", "exited"}
    /\ simPhase' = "ended"
    /\ pendingCallCost' = 0
    /\ pendingCallDepth' = 0
    /\ pendingCallType' = ""
    /\ simHook' = [kind |-> "OnTxEnd"]
    /\ hookCount' = hookCount + 1
    /\ UNCHANGED <<gasUsed, totalGasUsed, opcodeCounts, callStack, callErrors, evmFrames,
                   evmNext>>

\* OnTxEnd, called once the outermost frame has exited, or at once when the
\* transaction does not reach execution.
SimOnTxEnd ==
    /\ simPhase \in {"tx", "exited"}
    /\ simPhase' = "ended"
    /\ IF pendingCallCost > 0
       THEN /\ gasUsed' = MapAdd(gasUsed, pendingCallType, pendingCallCost)
            /\ totalGasUsed' = AddU64(totalGasUsed, pendingCallCost)
            /\ pendingCallCost' = 0
            /\ pendingCallDepth' = 0
            /\ pendingCallType' = ""
       ELSE UNCHANGED <<gasUsed, totalGasUsed, pendingCallCost, pendingCallDepth,
                        pendingCallType>>
    /\ simHook' = [kind |-> "OnTxEnd"]
    /\ hookCount' = hookCount + 1
    /\ UNCHANGED <<opcodeCounts, callStack, callErrors, evmFrames, evmNext>>

\* OnEnter(depth, typ, from, to, precompile, input, gas, value, code): the EVM
\* enters the outermost frame at depth 0, or the frame of the CALL-family or
\* CREATE opcode it has just reported, at the depth of that opcode.
SimOnEnter ==
    /\ hookCount < MaxHooks
    /\ \/ simPhase = "tx"
       \/ simPhase = "run" /\ evmNext = "call" /\ Len(evmFrames) <= MaxDepth
    /\ \E typ \in (IF simPhase = "tx" THEN {240, 241} ELSE {simHook.opcode}),
          to \in SimTargets, gas \in SimChildGas :
         LET depth    == Len(evmFrames)
             typName  == IF opcodeStrings[typ] = "" THEN "UNKNOWN" ELSE opcodeStrings[typ]
             resolve  == pendingCallCost > 0 /\ pendingCallDepth = depth
             overhead == IF pendingCallCost > gas THEN pendingCallCost - gas ELSE 0
             addrStr  == TruncateAddr(to)
         IN /\ IF resolve
               THEN /\ gasUsed' = MapAdd(gasUsed, pendingCallType, overhead)
                    /\ totalGasUsed' = AddU64(totalGasUsed, overhead)
                    /\ pendingCallCost' = 0
                    /\ pendingCallDepth' = 0
                    /\ pendingCallType' = ""
               ELSE UNCHANGED <<gasUsed, totalGasUsed, pendingCallCost, pendingCallDepth,
                                pendingCallType>>
            /\ callStack' = Append(callStack,
                                   [depth |-> depth, typ |-> typName, address |-> addrStr])
            /\ evmFrames' = Append(evmFrames, [depth |-> depth, typ |-> typ, to |-> to])
            /\ simHook' = [kind |-> "OnEnter", depth |-> depth, typ |-> typ, to |-> to,
                           gas |-> gas]
    /\ simPhase' = "run"
    /\ evmNext' = "op"
    /\ hookCount' = hookCount + 1
    /\ UNCHANGED <<opcodeCounts, callErrors>>

\* OnExit(depth, output, gasUsed, err, reverted): the innermost frame ends,
\* at any point of its code, and necessarily after an opcode that has failed.
\* err is the error's message, ErrNone for nil.
SimOnExit ==
    /\ simPhase = "run"
    /\ evmNext \in {"op", "exit"}
    /\ \E err \in (IF evmNext = "exit" THEN {ErrOutOfGas} ELSE {ErrNone, ErrOutOfGas}),
          reverted \in BOOLEAN :
         LET frame == callStack[Len(callStack)]
         IN /\ IF callStack = <<>>
               THEN UNCHANGED <<callStack, callErrors>>
               ELSE /\ callStack' = SubSeq(callStack, 1, Len(callStack) - 1)
                    /\ callErrors' =
                          IF err # ErrNone \/ reverted
                          THEN Append(callErrors,
                                      [Depth   |-> frame.depth,
                                       Type    |-> frame.typ,
                                       Error   |-> IF err # ErrNone THEN err
                                                   ELSE "execution reverted",
                                       Address |-> frame.address])
                          ELSE callErrors
            /\ simHook' = [kind |-> "OnExit", depth |-> Len(evmFrames) - 1, err |-> err,
                           reverted |-> reverted, stray |-> FALSE]
    /\ evmFrames' = SubSeq(evmFrames, 1, Len(evmFrames) - 1)
    /\ simPhase' = IF Len(evmFrames) = 1 THEN "exited" ELSE "run"
    /\ evmNext' = "op"
    /\ hookCount' = hookCount + 1
    /\ UNCHANGED <<gasUsed, opcodeCounts, totalGasUsed, pendingCallCost, pendingCallDepth,
                   pendingCallType>>

\* OnExit while the tracer holds no frame: it returns at once.
SimOnExitNoFrame ==
    /\ simPhase \in {"tx", "exited"}
    /\ hookCount < MaxHooks
    /\ callStack = <<>>
    /\ \E err \in {ErrNone, ErrOutOfGas}, reverted \in BOOLEAN :
         simHook' = [kind |-> "OnExit", depth |-> 0, err |-> err, reverted |-> reverted,
                     stray |-> TRUE]
    /\ hookCount' = hookCount + 1
    /\ UNCHANGED <<gasUsed, opcodeCounts, totalGasUsed, callStack, callErrors,
                   pendingCallCost, pendingCallDepth, pendingCallType, simPhase,
                   evmFrames, evmNext>>

\* OnOpcode(pc, opcode, gas, cost, scope, rData, depth, err): an opcode of the
\* innermost frame, at depth len(frames); failed says err != nil, after which
\* the frame ends.  After a CALL-family or CREATE opcode that has not failed
\* the EVM enters the child frame, or goes on with the next opcode when the
\* call fails before the frame is created.
SimOnOpcode ==
    /\ simPhase = "run"
    /\ evmNext \in {"op", "call"}
    /\ hookCount < MaxHooks
    /\ \E in \in SimOpcodeInputs :
         LET opcode == in[1]
             cost   == in[2]
             failed == in[3]
             depth  == Len(evmFrames)
             opName == opcodeStrings[opcode]
             flush  == pendingCallCost > 0 /\ pendingCallDepth = depth
             gasUsed1 == IF flush THEN MapAdd(gasUsed, pendingCallType, pendingCallCost)
                         ELSE gasUsed
             total1 == IF flush THEN AddU64(totalGasUsed, pendingCallCost)
                       ELSE totalGasUsed
         IN /\ opcodeCounts' = MapAdd(opcodeCounts, opName, 1)
            /\ IF opcode = 241 \/ opcode = 242 \/ opcode = 244 \/ opcode = 250
               THEN /\ pendingCallCost' = cost
                    /\ pendingCallDepth' = depth
                    /\ pendingCallType' = opName
                    /\ gasUsed' = gasUsed1
                    /\ totalGasUsed' = total1
               ELSE /\ pendingCallCost' = IF flush THEN 0 ELSE pendingCallCost
                    /\ pendingCallDepth' = IF flush THEN 0 ELSE pendingCallDepth
                    /\ pendingCallType' = IF flush THEN "" ELSE pendingCallType
                    /\ gasUsed' = MapAdd(gasUsed1, opName, cost)
                    /\ totalGasUsed' = AddU64(total1, cost)
            /\ evmNext' = IF failed THEN "exit"
                          ELSE IF opcode \in {240, 241, 250} THEN "call" ELSE "op"
            /\ simHook' = [kind |-> "OnOpcode", opcode |-> opcode, cost |-> cost,
                           depth |-> depth, failed |-> failed,
                           pending |-> [cost |-> pendingCallCost,
                                        depth |-> pendingCallDepth,
                                        type |-> pendingCallType]]
    /\ hookCount' = hookCount + 1
    /\ UNCHANGED <<callStack, callErrors, simPhase, evmFrames>>

\* The opcodes OnOpcode defers: CALL, CALLCODE, DELEGATECALL, STATICCALL.
SimIsCallFamily(hook) ==
    hook.kind = "OnOpcode" /\ hook.opcode \in {241, 242, 244, 250}

\* The step is a call of the hook named.
SimStepOf(kind) == hookCount' = hookCount + 1 /\ simHook'.kind = kind

\* C23: a CALL-family opcode with cost c is observed at depth d and the next
\* hook is OnEnter at depth d with child gas g: the gas of the opcode's
\* mnemonic and the total grow by c - g, by 0 if c <= g, no other gas and no
\* count changes, and no CALL is pending afterwards; the opcode's count was
\* incremented when the opcode was observed.
C23_OverheadOnEnter ==
    [][ /\ (SimIsCallFamily(simHook) /\ SimStepOf("OnEnter")
              /\ simHook'.depth = simHook.depth) =>
            LET c   == simHook.cost
                g   == simHook'.gas
                m   == opcodeStrings[simHook.opcode]
                inc == IF c <= g THEN 0 ELSE c - g
            IN /\ MapGet(gasUsed', m) = MapGet(gasUsed, m) + inc
               /\ \A k \in DOMAIN gasUsed' \ {m} :
                     k \in DOMAIN gasUsed /\ gasUsed'[k] = gasUsed[k]
               /\ totalGasUsed' = totalGasUsed + inc
               /\ pendingCallCost' = 0
               /\ opcodeCounts' = opcodeCounts
               /\ MapGet(opcodeCounts, m) >= 1
        /\ SimStepOf("OnOpcode") =>
            LET m == opcodeStrings[simHook'.opcode]
            IN MapGet(opcodeCounts', m) = MapGet(opcodeCounts, m) + 1
      ]_vars

\* A second CALL at depth 1 has entered its child: 600 of its cost 700 have
\* been added to the 600 of the first.
C23_Witness ==
    /\ simHook.kind = "OnEnter"
    /\ simHook.depth = 1
    /\ MapGet(gasUsed, "CALL") = 1200
    /\ MapGet(opcodeCounts, "CALL") = 2
    /\ totalGasUsed = 1200
    /\ pendingCallCost = 0

\* C24: when the opcode after a CALL-family opcode arrives at the same depth
\* with no OnEnter in between, the full cost of the CALL is added to its
\* mnemonic and to the total, besides what the new opcode adds itself; and
\* OnTxEnd adds the full cost of a CALL still pending, after which no CALL is
\* pending.
C24_FullCostWithoutChildFrame ==
    [][ /\ (SimIsCallFamily(simHook) /\ SimStepOf("OnOpcode")
              /\ simHook'.depth = simHook.depth) =>
            LET c    == simHook.cost
                m    == opcodeStrings[simHook.opcode]
                n    == opcodeStrings[simHook'.opcode]
                own  == IF SimIsCallFamily(simHook') THEN 0 ELSE simHook'.cost
                full == MapAdd(gasUsed, m, c)
            IN /\ MapGet(gasUsed', m) = MapGet(full, m) + (IF n = m THEN own ELSE 0)
               /\ totalGasUsed' = totalGasUsed + c + own
               /\ MapGet(opcodeCounts', n) = MapGet(opcodeCounts, n) + 1
        /\ SimStepOf("OnTxEnd") =>
            /\ MapGet(gasUsed', pendingCallType) =
                  MapGet(gasUsed, pendingCallType) + pendingCallCost
            /\ totalGasUsed' = totalGasUsed + pendingCallCost
            /\ pendingCallCost' = 0
      ]_vars

\* The transaction has ended with a CALL pending whose frame failed on it:
\* OnTxEnd has added its full cost, after an earlier CALL at the same depth
\* whose child was not entered.
C24_Witness ==
    /\ simPhase = "ended"
    /\ simHook.kind = "OnTxEnd"
    /\ MapGet(gasUsed, "CALL") = 1400
    /\ MapGet(opcodeCounts, "CALL") = 2
    /\ callStack = <<>>
    /\ pendingCallCost = 0

\* C26: every OnExit with an error or reverted = true appends one CallError
\* with the depth, the type and the target of the frame the EVM is leaving
\* (the most recent OnEnter not yet matched), the target cut to its first 20
\* characters at most, and the message 'execution reverted' when there is no
\* error; an OnExit with neither appends nothing; an OnExit while no frame is
\* open changes nothing.
C26_CallErrorPerFailedExit ==
    [][ SimStepOf("OnExit") =>
          IF evmFrames = <<>>
          THEN UNCHANGED <<gasUsed, opcodeCounts, totalGasUsed, callStack, callErrors,
                           pendingCallCost, pendingCallDepth, pendingCallType>>
          ELSE LET top == evmFrames[Len(evmFrames)]
                   err == simHook'.err
                   n   == IF Len(top.to) < 20 THEN Len(top.to) ELSE 20
               IN IF err # ErrNone \/ simHook'.reverted
                  THEN callErrors' =
                         Append(callErrors,
                                [Depth   |-> top.depth,
                                 Type    |-> opcodeStrings[top.typ],
                                 Error   |-> IF err # ErrNone THEN err
                                             ELSE "execution reverted",
                                 Address |-> [i \in 1..n |-> top.to[i]]])
                  ELSE callErrors' = callErrors
      ]_vars

\* A frame entered by STATICCALL at depth 1 to a 42-character target has
\* reverted with no error, after which the outer frame has failed.
C26_Witness ==
    /\ Len(callErrors) = 2
    /\ callErrors[1].Depth = 1
    /\ callErrors[1].Type = "STATICCALL"
    /\ callErrors[1].Error = "execution reverted"
    /\ Len(callErrors[1].Address) = 20
    /\ callErrors[2].Depth = 0
    /\ callErrors[2].Error = ErrOutOfGas
    /\ Len(callErrors[2].Address) = 5

\* C28 (as claimed): a pending CALL record is never overwritten by a later
\* CALL-family opcode before its cost has been attributed, so that every
\* CALL-family opcode's cost is attributed once by the time OnTxEnd returns.
C28_PendingCallNeverOverwritten ==
    [][ (SimStepOf("OnOpcode") /\ SimIsCallFamily(simHook')) =>
          (pendingCallCost = 0 \/ pendingCallDepth = simHook'.depth)
      ]_vars

\* ------------------------------------------------------------------------
\* Specifications: each runs one component and leaves the others at rest.
\* ------------------------------------------------------------------------
TracerIdle ==
    /\ logs = <<>>
    /\ pendingIdx = <<>>
    /\ pendingCreates = <<>>
    /\ env = FALSE
    /\ calls = <<>>

DriverIdle ==
    /\ req = [gasSchedule |-> NilSchedule, maxGasLimit |-> FALSE]
    /\ block = <<>>
    /\ drvState = "idle"
    /\ txIndex = 0
    /\ transactions = <<>>
    /\ totals = [origGasUsed |-> 0, simGasUsed |-> 0,
                 origExceeds |-> FALSE, simExceeds |-> FALSE]
    /\ opcodeBreakdown = EmptyMap
    /\ nextView = 0
    /\ nextTracer = 0
    /\ runs = <<>>
    /\ dualResults = <<>>
    /\ infraFail = "none"
    /\ txGasResult = <<>>

GasIdle ==
    /\ vmSchedule = NilSchedule
    /\ gasCall = NoGasCall

SstoreIdle ==
    /\ sstoreP = SstoreGasParams(MapSchedule([k \in {"SLOAD_COLD"} |-> ColdSloadCostEIP2929]))
    /\ slotOriginal = 0
    /\ slotCurrent = 0
    /\ slotWarm = FALSE
    /\ refundCounter = 0
    /\ refundPanic = FALSE
    /\ sstoreCount = 0
    /\ lastSstore = NoSstore

TableIdle ==
    /\ jtRules = "Cancun"
    /\ jtSchedule = NilSchedule
    /\ jtEdits = 0
    /\ jtBuilt = "base"
    /\ jtTable = GetBaseJumpTable("Cancun")

CallIdle ==
    /\ callP = CallGasParams(NilSchedule)
    /\ accessList = {}
    /\ calledAddrs = {}
    /\ callCount = 0
    /\ lastCall = NoCall

SimIdle == SimInit

TracerNext ==
    \/ OnTxStart /\ UNCHANGED <<driverVars, gasVars, sstoreVars, tableVars, callVars, simVars>>
    \/ TracerOpcode /\ UNCHANGED <<driverVars, gasVars, sstoreVars, tableVars, callVars, simVars>>

SpecTracerInit == TracerInit /\ DriverIdle /\ GasIdle /\ SstoreIdle /\ TableIdle /\ CallIdle /\ SimIdle

SpecTracer == SpecTracerInit /\ [][TracerNext]_vars

SpecDriverNext ==
    \/ DrvBegin /\ UNCHANGED <<tracerVars, gasVars, sstoreVars, tableVars, callVars, simVars>>
    \/ DrvBeginFail /\ UNCHANGED <<tracerVars, gasVars, sstoreVars, tableVars, callVars, simVars>>
    \/ DrvTx /\ UNCHANGED <<tracerVars, gasVars, sstoreVars, tableVars, callVars, simVars>>
    \/ DrvTxFail /\ UNCHANGED <<tracerVars, gasVars, sstoreVars, tableVars, callVars, simVars>>
    \/ DrvFinish /\ UNCHANGED <<tracerVars, gasVars, sstoreVars, tableVars, callVars, simVars>>
    \/ SimulateTransactionGas /\ UNCHANGED <<tracerVars, gasVars, sstoreVars, tableVars, callVars, simVars>>
    \/ SimulateTransactionGasFail /\ UNCHANGED <<tracerVars, gasVars, sstoreVars, tableVars, callVars, simVars>>

SpecDriverInit == DriverInit /\ TracerIdle /\ GasIdle /\ SstoreIdle /\ TableIdle /\ CallIdle /\ SimIdle

SpecDriver == SpecDriverInit /\ [][SpecDriverNext]_vars

SpecGasNext ==
    \/ GetOrCall /\ UNCHANGED <<tracerVars, driverVars, sstoreVars, tableVars, callVars, simVars>>
    \/ PrecompileCall /\ UNCHANGED <<tracerVars, driverVars, sstoreVars, tableVars, callVars, simVars>>
    \/ PrecompileCallUnknown /\ UNCHANGED <<tracerVars, driverVars, sstoreVars, tableVars, callVars, simVars>>
    \/ CallGasCall /\ UNCHANGED <<tracerVars, driverVars, sstoreVars, tableVars, callVars, simVars>>
    \/ ExpGasCall /\ UNCHANGED <<tracerVars, driverVars, sstoreVars, tableVars, callVars, simVars>>
    \/ LogGasCall /\ UNCHANGED <<tracerVars, driverVars, sstoreVars, tableVars, callVars, simVars>>
    \/ IntrinsicGasCall /\ UNCHANGED <<tracerVars, driverVars, sstoreVars, tableVars, callVars, simVars>>

SpecGasInit == GasInit /\ TracerIdle /\ DriverIdle /\ SstoreIdle /\ TableIdle /\ CallIdle /\ SimIdle

SpecGas == SpecGasInit /\ [][SpecGasNext]_vars

SpecSstoreNext == Sstore /\ UNCHANGED <<tracerVars, driverVars, gasVars, tableVars, callVars, simVars>>

SpecSstoreInit == SstoreInit /\ TracerIdle /\ DriverIdle /\ GasIdle /\ TableIdle /\ CallIdle /\ SimIdle

SpecSstore == SpecSstoreInit /\ [][SpecSstoreNext]_vars

SpecTableNext ==
    \/ DefaultsFor /\ UNCHANGED <<tracerVars, driverVars, gasVars, sstoreVars, callVars, simVars>>
    \/ OverrideKey /\ UNCHANGED <<tracerVars, driverVars, gasVars, sstoreVars, callVars, simVars>>
    \/ BuildDynamic /\ UNCHANGED <<tracerVars, driverVars, gasVars, sstoreVars, callVars, simVars>>
    \/ BuildConstant /\ UNCHANGED <<tracerVars, driverVars, gasVars, sstoreVars, callVars, simVars>>

SpecTableInit == TableInit /\ TracerIdle /\ DriverIdle /\ GasIdle /\ SstoreIdle /\ CallIdle /\ SimIdle

SpecTable == SpecTableInit /\ [][SpecTableNext]_vars

SpecCallNext ==
    Call /\ UNCHANGED <<tracerVars, driverVars, gasVars, sstoreVars, tableVars, simVars>>

SpecCallInit ==
    CallInit /\ TracerIdle /\ DriverIdle /\ GasIdle /\ SstoreIdle /\ TableIdle /\ SimIdle

SpecCall == SpecCallInit /\ [][SpecCallNext]_vars

SpecSimNext ==
    \/ SimOnTxStart /\ UNCHANGED <<tracerVars, driverVars, gasVars, sstoreVars, tableVars, callVars>>
    \/ SimOnEnter /\ UNCHANGED <<tracerVars, driverVars, gasVars, sstoreVars, tableVars, callVars>>
    \/ SimOnOpcode /\ UNCHANGED <<tracerVars, driverVars, gasVars, sstoreVars, tableVars, callVars>>
    \/ SimOnExit /\ UNCHANGED <<tracerVars, driverVars, gasVars, sstoreVars, tableVars, callVars>>
    \/ SimOnExitNoFrame /\ UNCHANGED <<tracerVars, driverVars, gasVars, sstoreVars, tableVars, callVars>>
    \/ SimOnTxEnd /\ UNCHANGED <<tracerVars, driverVars, gasVars, sstoreVars, tableVars, callVars>>

SpecSimInit ==
    SimInit /\ TracerIdle /\ DriverIdle /\ GasIdle /\ SstoreIdle /\ TableIdle /\ CallIdle

SpecSim == SpecSimInit /\ [][SpecSimNext]_vars

====
